---- MODULE Spec2Model ----
(***************************************************************************)
(* Model of the generic worker pool of package worker                      *)
(* (src/worker/worker.go, worker_internal.go, types.go).                   *)
(*                                                                         *)
(* One controller thread issues Start / Stop / Scale calls one after the   *)
(* other; NumCalls concurrent callers each issue one Submit; every worker  *)
(* loop and every task function is a goroutine of its own.  Each action is *)
(* one atomic step of the code: an atomic load / CAS / add, a channel      *)
(* operation, or one select.  A Go select with several ready cases picks   *)
(* any of them, so every ready case is a disjunct.  A run-time panic       *)
(* (send on / close of a closed channel) kills the process: `panicked`     *)
(* records it and no goroutine runs any more.  The context handed to       *)
(* NewWorker is one that is never cancelled (context.Background()): w.ctx  *)
(* is done only through Stop.                                              *)
(*                                                                         *)
(* Beside the pool the module models, each under a specification of its    *)
(* own: the autoscaler's decision (adjustWorkerCount), a Scale call that   *)
(* runs beside the controller's calls, the counter registry *Metrics of    *)
(* worker.go lines 159-298, the lifecycle manager                          *)
(* (src/lifecycle/lifecycle.go), tools.Bool (src/tools/atomicBool.go),     *)
(* the WaiterContext (src/waiter/waiter.go) and the state machine          *)
(* (src/statemachine).                                                     *)
(***************************************************************************)
EXTENDS Integers, Sequences, FiniteSets, TLC

\* ---- configuration (Options) and model bounds ----
\* The Options the pool of Spec is built with.
MinWorkers == 1
MaxWorkers == 2
QueueSize == 1

NumCalls == 2
MaxOps == 3
MaxSpawn == 3
\* NewWorker is tried on every Options with fields in -1..MaxOpt.
MaxOpt == 3
MaxRegCalls == 3
NumHooks == 2
NumShut == 2
NumTogglers == 3
MaxGauge == 5
MaxScales == 2
NumObservers == 2
NumTransitions == 2
NumTasks == 2
OptRange == -1..MaxOpt

Calls == 1..NumCalls
Deltas == {-1, 1}

VARIABLES
  opts,         \* w.opts: [MinWorkers, MaxWorkers, QueueSize]
  created,      \* what NewWorker returned: "none" (not called yet), "pool", "error"
  running,      \* w.running (atomic.Bool)
  ctxDone,      \* w.ctx cancelled (w.cancel() was called)
  tasks,        \* w.tasks: [st |-> "nil"|"open"|"closed", cap |-> capacity,
                \*           buf |-> queued envelopes, oldest first]
  quitClosed,   \* w.quit was closed
  wg,           \* w.wg counter
  activeWorkers, activeTasks, queueLength, completedTasks, errorCount, \* w.metrics
  autoScaler,   \* the autoScale goroutine was started
  wkSelect,     \* number of worker loops at the select of runWorker
  wkExec,       \* envelopes held by a worker loop inside executeTask
  wkExiting,    \* number of worker loops that left runWorker, deferred calls pending
  subPc, subRet, \* each Submit call: position and return value
  cancelled,    \* each Submit call: its ctx became done after its envelope was
                \* queued, and the envelope has no Result yet
  nres, resVal, \* each call's result destination: Results written, last one
  ctl,          \* the controller thread's current call
  ops,          \* number of controller calls that passed their checks (capped by MaxOps)
  waitEnd,      \* the case that ended Stop's wait, while Stop is just past the wait
  phase,        \* life-cycle position: Created, Running, Draining, Stopped
  snap,         \* taken: a Metrics() call has returned its value;
                \* atCall: what the atomics held at the moment of that call
  panicked,     \* "none", or the operation whose run-time panic killed the process
  taskCount,    \* w.metrics.TaskCount
  tick,         \* a tick of the autoscaler: queueLen, activeWorkers, completedTasks,
                \* the locals of adjustWorkerCount after its three loads; done:
                \* its switch has run; arg: the argument of the Scale call it
                \* made (0: it made none)
  reg,          \* the counters of a *Metrics built by NewMetrics (worker.go 159-195)
  regGot,       \* what the last round of Get calls on it returned
  regCall,      \* last: the last call on it; n: calls made so far; dirty: the
                \* last Reset found a counter that was not zero
  lc,           \* the lifecycle manager (lifecycle.go lines 57-74): state, mu (0:
                \* free, h: held by the register call of hook h), hooks, sdSet
                \* (m.sdCtx and m.sdCancel assigned), expired / cancelled (of
                \* m.sdCtx), once, wg, done (times m.done was closed)
  lcPc,         \* its goroutines: run (runHooks), timer (the one of lines 150-153),
                \* begin (the call inside once.Do), copied (runHooks' local hooks)
  hook,         \* each hook fn: pc of its register call; n, times it was invoked;
                \* st, its run; ctx, the context it was handed; inWg
  lcObs,        \* waited: Wait() returned; got: what ShutdownContext() returned;
                \* calls: BeginShutdown calls that returned
  bvalue,       \* b.value of a tools.Bool (atomicBool.go lines 8-10)
  toggler,      \* each Toggle call: pc, its locals old and new, loads: passes of
                \* its loop, ret: what it returned
  toggled,      \* initial: the value NewBool was given; log: the values the
                \* successful CompareAndSwaps installed, in their order
  scaler,       \* a Scale call made beside the controller's calls (the one of
                \* adjustWorkerCount, or another caller's): pc, delta, ret, and
                \* late: what it did after Stop's wait had ended
  waiter,       \* a WaiterContext (waiter.go lines 10-28): parentDone, parentErr
                \* (of wc.parent), done (wc.done closed), err (wc.err), pc of
                \* watchParent, and what a caller of Done() and Err() observed
  machine       \* a StateContext with its StateMachine (statecontext.go lines
                \* 6-24, machine.go lines 5-13)

metricVars == <<activeWorkers, activeTasks, queueLength, completedTasks, errorCount>>
wkVars == <<wkSelect, wkExec, wkExiting>>
poolVars == <<running, ctxDone, tasks, quitClosed, wg, autoScaler, wkVars>>
callVars == <<subPc, subRet, nres, resVal>>
ctlVars == <<ctl, ops, waitEnd, phase>>
envVars == <<opts, created, cancelled, snap>>
poolAll == <<metricVars, poolVars, callVars, ctlVars, envVars, panicked>>
tickVars == <<tick>>
\* What no operation of the pool itself writes.
regVars == <<reg, regGot, regCall>>
lcVars == <<lc, lcPc, hook, lcObs>>
boolVars == <<bvalue, toggler, toggled>>
newVars == <<scaler, waiter, machine>>
extVars == <<taskCount, tickVars, regVars, lcVars, boolVars, newVars>>
vars == <<poolAll, extVars>>
\* What the autoscaler's tick, the registry's methods, the lifecycle manager and
\* the calls on a tools.Bool leave alone.
exceptTick == <<poolAll, taskCount, regVars, lcVars, boolVars, newVars>>
exceptReg == <<poolAll, taskCount, tickVars, lcVars, boolVars, newVars>>
exceptLc == <<poolAll, taskCount, tickVars, regVars, boolVars, newVars>>
exceptBool == <<poolAll, taskCount, tickVars, regVars, lcVars, newVars>>

\* op: the call; pc: its position; swapped: the result of its CompareAndSwap;
\* delta, i: Scale's argument and loop counter; ret: the value the call returned.
Idle == [op |-> "none", pc |-> "idle", swapped |-> FALSE, delta |-> 0, i |-> 0, ret |-> "none"]

\* The values the atomics of w.metrics hold now.
Gauges == [ActiveWorkers |-> activeWorkers, ActiveTasks |-> activeTasks,
           QueueLength |-> queueLength, CompletedTasks |-> completedTasks,
           ErrorCount |-> errorCount]

\* The fields of a pool before Start (lines 36-41 of NewWorker).
Fresh ==
  /\ running = FALSE
  /\ ctxDone = FALSE
  /\ tasks = [st |-> "nil", cap |-> 0, buf |-> <<>>]
  /\ quitClosed = FALSE
  /\ wg = 0
  /\ activeWorkers = 0 /\ activeTasks = 0 /\ queueLength = 0
  /\ completedTasks = 0 /\ errorCount = 0
  /\ autoScaler = FALSE
  /\ wkSelect = 0 /\ wkExec = {} /\ wkExiting = 0
  /\ subPc = [c \in Calls |-> "idle"]
  /\ subRet = [c \in Calls |-> "none"]
  /\ nres = [c \in Calls |-> 0]
  /\ resVal = [c \in Calls |-> "none"]
  /\ ctl = Idle
  /\ ops = 0
  /\ waitEnd = "none"
  /\ cancelled = [c \in Calls |-> FALSE]
  /\ snap = [taken |-> FALSE, atCall |-> Gauges]
  /\ phase = "Created"
  /\ panicked = "none"
  /\ taskCount = 0

\* The pool, the registry type Metrics, the lifecycle manager and tools.Bool are
\* independent of one another: each specification builds the one it is about,
\* and the variables of a component that is not built hold <<>> throughout.
NoTick == tick = <<>>
NoRegistry == reg = <<>> /\ regGot = <<>> /\ regCall = <<>>
NoManager == lc = <<>> /\ lcPc = <<>> /\ hook = <<>> /\ lcObs = <<>>
NoBool == bvalue = <<>> /\ toggler = <<>> /\ toggled = <<>>
NoScaler == scaler = <<>>
NoWaiter == waiter = <<>>
NoMachine == machine = <<>>
NoOthers == NoScaler /\ NoWaiter /\ NoMachine
PoolOnly == NoTick /\ NoRegistry /\ NoManager /\ NoBool /\ NoOthers

\* NewMetrics (worker.go lines 180-195): every counter zero, averageTime 0.
RegFields == {"taskCount", "activeTasks", "queueLength", "rejectedTasks",
              "timeoutTasks", "completedTasks", "errorCount", "activeWorkers",
              "averageTime"}
RegZero == [f \in RegFields |-> 0]
NewMetrics ==
  /\ reg = RegZero
  /\ regGot = RegZero
  /\ regCall = [last |-> "NewMetrics", n |-> 0, dirty |-> FALSE]

\* newManager (lifecycle.go lines 76-102): state Running, done open, no hooks;
\* m.sdCtx and m.sdCancel are nil.
Hooks == 1..NumHooks
newManager ==
  /\ lc = [state |-> "Running", mu |-> 0, hooks |-> <<>>, sdSet |-> FALSE,
           expired |-> FALSE, cancelled |-> FALSE, once |-> "fresh", wg |-> 0,
           done |-> 0]
  /\ lcPc = [run |-> "none", timer |-> "none", begin |-> "none", copied |-> <<>>]
  /\ hook = [h \in Hooks |-> [pc |-> "idle", n |-> 0, st |-> "none",
                               ctx |-> "none", inWg |-> FALSE]]
  /\ lcObs = [waited |-> FALSE, got |-> "none", calls |-> 0]

\* NewBool (atomicBool.go lines 13-19); no Toggle call has started.
Togglers == 1..NumTogglers
NewBool(initial) ==
  /\ bvalue = IF initial THEN 1 ELSE 0
  /\ toggler = [p \in Togglers |-> [pc |-> "idle", old |-> 0, new |-> 0, loads |-> 0,
                                     ret |-> FALSE]]
  /\ toggled = [initial |-> initial, log |-> <<>>]

\* validateOptions (worker_internal.go lines 135-143)
validateOptions(o) ==
  IF o.MaxWorkers < o.MinWorkers THEN "errMaxWorkers"
  ELSE IF o.QueueSize <= 0 THEN "errQueueSize"
  ELSE "nil"

\* NewWorker has returned the pool, built with the Options above.
Init ==
  /\ opts = [MinWorkers |-> MinWorkers, MaxWorkers |-> MaxWorkers,
             QueueSize |-> QueueSize]
  /\ validateOptions(opts) = "nil"
  /\ created = "pool"
  /\ Fresh
  /\ PoolOnly

Alive == panicked = "none"

\* ---- result destination: ch <- Result{...} ----
Deliver(c, v) ==
  /\ nres' = [nres EXCEPT ![c] = @ + 1]
  /\ resVal' = [resVal EXCEPT ![c] = v]

\* ---- startWorker: wg.Add(1); ActiveWorkers.Add(1); go runWorker ----
\* Goroutines of startWorker that have not finished; MaxSpawn caps them.
Goroutines == wkSelect + Cardinality(wkExec) + wkExiting
LiveLoops == wkSelect + Cardinality(wkExec)
\* startWorker without the ActiveWorkers.Add(1) of line 12.
startWorkerNoGauge ==
  /\ Goroutines < MaxSpawn
  /\ wg' = wg + 1
  /\ wkSelect' = wkSelect + 1
  /\ UNCHANGED <<activeWorkers, wkExec, wkExiting>>

startWorker ==
  /\ Goroutines < MaxSpawn
  /\ wg' = wg + 1
  /\ activeWorkers' = activeWorkers + 1
  /\ wkSelect' = wkSelect + 1
  /\ UNCHANGED <<wkExec, wkExiting>>

\* ---- the caller's ctx after the wait ----
\* The ctx handed to Submit becomes done (the caller cancels it, or its deadline
\* passes) while the call's envelope is in the queue or with the loop that
\* executes it.  The code reads the ctx in the select of Submit only (line
\* 57), where SubmitSelect has its case; one ctx at a time is followed here.
InPool(c) == c \in wkExec \/ \E k \in 1..Len(tasks.buf) : tasks.buf[k] = c

CancelFire(c) ==
  /\ Alive
  /\ \A d \in Calls : ~cancelled[d]
  /\ InPool(c)
  /\ cancelled' = [cancelled EXCEPT ![c] = TRUE]
  /\ UNCHANGED <<metricVars, poolVars, callVars, ctlVars, opts, created, snap,
                 panicked, extVars>>

\* The envelope of call c has its Result: its ctx is followed no longer.
Forget(c) == cancelled' = [cancelled EXCEPT ![c] = FALSE]

\* ---- variants of the code with a fault seeded, used to test the properties ----
\* Submit whose running check forgets line 47: the error is returned only.
SubmitLoadNoDeliver(c) ==
  /\ Alive
  /\ subPc[c] = "idle"
  /\ \A d \in Calls : d < c => subPc[d] # "idle"
  /\ IF running
       THEN /\ subPc' = [subPc EXCEPT ![c] = "select"]
            /\ UNCHANGED subRet
       ELSE /\ subRet' = [subRet EXCEPT ![c] = "ErrWorkerStopped"]
            /\ subPc' = [subPc EXCEPT ![c] = "done"]
  /\ UNCHANGED <<metricVars, poolVars, nres, resVal, ctlVars, panicked>>
  /\ UNCHANGED <<envVars, extVars>>

\* Submit whose <-w.ctx.Done() case reports the error and still sends the
\* envelope when the queue has room.
SubmitSelectFallThrough(c) ==
  /\ Alive
  /\ subPc[c] = "select"
  /\ \/ /\ Deliver(c, "ctxErr")
        /\ subRet' = [subRet EXCEPT ![c] = "ctxErr"]
        /\ subPc' = [subPc EXCEPT ![c] = "done"]
        /\ UNCHANGED <<tasks, panicked>>
     \/ /\ ctxDone
        /\ Deliver(c, "ErrWorkerStopped")
        /\ subRet' = [subRet EXCEPT ![c] = "ErrWorkerStopped"]
        /\ subPc' = [subPc EXCEPT ![c] = "done"]
        /\ tasks' = IF tasks.st = "open" /\ Len(tasks.buf) < tasks.cap
                      THEN [tasks EXCEPT !.buf = Append(@, c)] ELSE tasks
        /\ UNCHANGED panicked
     \/ /\ tasks.st = "open"
        /\ Len(tasks.buf) < tasks.cap
        /\ tasks' = [tasks EXCEPT !.buf = Append(@, c)]
        /\ subPc' = [subPc EXCEPT ![c] = "inc"]
        /\ UNCHANGED <<subRet, nres, resVal, panicked>>
     \/ /\ tasks.st = "closed"
        /\ panicked' = "Submit"
        /\ UNCHANGED <<tasks, subPc, subRet, nres, resVal>>
  /\ UNCHANGED <<metricVars, running, ctxDone, quitClosed, wg, autoScaler, wkVars,
                 ctlVars>>
  /\ UNCHANGED <<envVars, extVars>>

\* Submit whose <-ctx.Done() case returns the error without writing it to the
\* destination.
SubmitSelectCancelSilent(c) ==
  /\ Alive
  /\ subPc[c] = "select"
  /\ \/ /\ UNCHANGED <<nres, resVal>>
        /\ subRet' = [subRet EXCEPT ![c] = "ctxErr"]
        /\ subPc' = [subPc EXCEPT ![c] = "done"]
        /\ UNCHANGED <<tasks, panicked>>
     \/ /\ ctxDone
        /\ Deliver(c, "ErrWorkerStopped")
        /\ subRet' = [subRet EXCEPT ![c] = "ErrWorkerStopped"]
        /\ subPc' = [subPc EXCEPT ![c] = "done"]
        /\ UNCHANGED <<tasks, panicked>>
     \/ /\ tasks.st = "open"
        /\ Len(tasks.buf) < tasks.cap
        /\ tasks' = [tasks EXCEPT !.buf = Append(@, c)]
        /\ subPc' = [subPc EXCEPT ![c] = "inc"]
        /\ UNCHANGED <<subRet, nres, resVal, panicked>>
     \/ /\ tasks.st = "closed"
        /\ panicked' = "Submit"
        /\ UNCHANGED <<tasks, subPc, subRet, nres, resVal>>
  /\ UNCHANGED <<metricVars, running, ctxDone, quitClosed, wg, autoScaler, wkVars,
                 ctlVars>>
  /\ UNCHANGED <<envVars, extVars>>

\* Submit that sends without waiting for room in the queue.
SubmitSelectNoRoomCheck(c) ==
  /\ Alive
  /\ subPc[c] = "select"
  /\ \/ /\ Deliver(c, "ctxErr")
        /\ subRet' = [subRet EXCEPT ![c] = "ctxErr"]
        /\ subPc' = [subPc EXCEPT ![c] = "done"]
        /\ UNCHANGED <<tasks, panicked>>
     \/ /\ ctxDone
        /\ Deliver(c, "ErrWorkerStopped")
        /\ subRet' = [subRet EXCEPT ![c] = "ErrWorkerStopped"]
        /\ subPc' = [subPc EXCEPT ![c] = "done"]
        /\ UNCHANGED <<tasks, panicked>>
     \/ /\ tasks.st = "open"
        /\ tasks' = [tasks EXCEPT !.buf = Append(@, c)]
        /\ subPc' = [subPc EXCEPT ![c] = "inc"]
        /\ UNCHANGED <<subRet, nres, resVal, panicked>>
     \/ /\ tasks.st = "closed"
        /\ panicked' = "Submit"
        /\ UNCHANGED <<tasks, subPc, subRet, nres, resVal>>
  /\ UNCHANGED <<metricVars, running, ctxDone, quitClosed, wg, autoScaler, wkVars,
                 ctlVars>>
  /\ UNCHANGED <<envVars, extVars>>

\* ---- Submit ----
\* line 46: the running check; not running: deliver ErrWorkerStopped and return it.
SubmitLoad(c) ==
  /\ Alive
  /\ subPc[c] = "idle"
  /\ \A d \in Calls : d < c => subPc[d] # "idle"
  /\ IF running
       THEN /\ subPc' = [subPc EXCEPT ![c] = "select"]
            /\ UNCHANGED <<subRet, nres, resVal>>
       ELSE /\ Deliver(c, "ErrWorkerStopped")
            /\ subRet' = [subRet EXCEPT ![c] = "ErrWorkerStopped"]
            /\ subPc' = [subPc EXCEPT ![c] = "done"]
  /\ UNCHANGED <<metricVars, poolVars, ctlVars, panicked>>
  /\ UNCHANGED <<envVars, extVars>>

\* lines 56-63: the select; every ready case may be taken.  The caller's ctx may
\* become done at any moment of the wait, so its case may always be the one taken.
SubmitSelect(c) ==
  /\ Alive
  /\ subPc[c] = "select"
  /\ \/ /\ Deliver(c, "ctxErr")
        /\ subRet' = [subRet EXCEPT ![c] = "ctxErr"]
        /\ subPc' = [subPc EXCEPT ![c] = "done"]
        /\ UNCHANGED <<tasks, panicked>>
     \/ /\ ctxDone
        /\ Deliver(c, "ErrWorkerStopped")
        /\ subRet' = [subRet EXCEPT ![c] = "ErrWorkerStopped"]
        /\ subPc' = [subPc EXCEPT ![c] = "done"]
        /\ UNCHANGED <<tasks, panicked>>
     \/ /\ tasks.st = "open"
        /\ Len(tasks.buf) < tasks.cap
        /\ tasks' = [tasks EXCEPT !.buf = Append(@, c)]
        /\ subPc' = [subPc EXCEPT ![c] = "inc"]
        /\ UNCHANGED <<subRet, nres, resVal, panicked>>
     \/ /\ tasks.st = "closed"
        /\ panicked' = "Submit"
        /\ UNCHANGED <<tasks, subPc, subRet, nres, resVal>>
  /\ UNCHANGED <<metricVars, running, ctxDone, quitClosed, wg, autoScaler, wkVars,
                 ctlVars>>
  /\ UNCHANGED <<envVars, extVars>>

\* lines 64-66: the gauges are raised after the envelope is in the queue.
SubmitInc(c) ==
  /\ Alive
  /\ subPc[c] = "inc"
  /\ queueLength' = queueLength + 1
  /\ activeTasks' = activeTasks + 1
  /\ subRet' = [subRet EXCEPT ![c] = "nil"]
  /\ subPc' = [subPc EXCEPT ![c] = "done"]
  /\ UNCHANGED <<activeWorkers, completedTasks, errorCount, poolVars,
                 nres, resVal, ctlVars, panicked>>
  /\ UNCHANGED <<envVars, extVars>>

\* ---- worker loop (runWorker) ----
\* The loops at the select are blocked in it: no case of it is ready.
Parked ==
  /\ wkSelect > 0
  /\ ~ctxDone
  /\ ~quitClosed
  /\ ~(tasks.st = "closed")
  /\ tasks.buf = <<>>

LeaveLoop ==
  /\ wkSelect' = wkSelect - 1
  /\ wkExiting' = wkExiting + 1
  /\ UNCHANGED wkExec

\* A loop that receives the newest envelope of the queue instead of the oldest.
WorkerSelectNewestFirst ==
  /\ Alive
  /\ wkSelect > 0
  /\ \/ /\ ctxDone
        /\ LeaveLoop
        /\ UNCHANGED tasks
     \/ /\ quitClosed
        /\ LeaveLoop
        /\ UNCHANGED tasks
     \/ /\ tasks.st = "closed"
        /\ tasks.buf = <<>>
        /\ LeaveLoop
        /\ UNCHANGED tasks
     \/ /\ tasks.st # "nil"
        /\ tasks.buf # <<>>
        /\ tasks' = [tasks EXCEPT !.buf = SubSeq(@, 1, Len(@) - 1)]
        /\ wkSelect' = wkSelect - 1
        /\ wkExec' = wkExec \cup {tasks.buf[Len(tasks.buf)]}
        /\ UNCHANGED wkExiting
  /\ UNCHANGED <<metricVars, running, ctxDone, quitClosed, wg, autoScaler,
                 callVars, ctlVars, panicked>>
  /\ UNCHANGED <<envVars, extVars>>

\* lines 21-31 of worker_internal.go: one select of one loop.  A receive from
\* w.quit by hand-off is part of ScaleApply, the sender's step.
WorkerSelect ==
  /\ Alive
  /\ wkSelect > 0
  /\ \/ /\ ctxDone
        /\ LeaveLoop
        /\ UNCHANGED tasks
     \/ /\ quitClosed
        /\ LeaveLoop
        /\ UNCHANGED tasks
     \/ /\ tasks.st = "closed"
        /\ tasks.buf = <<>>
        /\ LeaveLoop
        /\ UNCHANGED tasks
     \/ /\ tasks.st # "nil"
        /\ tasks.buf # <<>>
        /\ tasks' = [tasks EXCEPT !.buf = Tail(@)]
        /\ wkSelect' = wkSelect - 1
        /\ wkExec' = wkExec \cup {Head(tasks.buf)}
        /\ UNCHANGED wkExiting
  /\ UNCHANGED <<metricVars, running, ctxDone, quitClosed, wg, autoScaler,
                 callVars, ctlVars, panicked>>
  /\ UNCHANGED <<envVars, extVars>>

\* handleTaskCompletion (lines 69-86), followed for an error by the
\* ErrorCount.Add(1) of runWorker (lines 33-35); the loop is back at its select.
Complete(c, v, isErr) ==
  /\ activeTasks' = activeTasks - 1
  /\ queueLength' = queueLength - 1
  /\ IF isErr
       THEN errorCount' = errorCount + 2 /\ UNCHANGED completedTasks
       ELSE completedTasks' = completedTasks + 1 /\ UNCHANGED errorCount
  /\ Deliver(c, v)
  /\ Forget(c)
  /\ wkExec' = wkExec \ {c}
  /\ wkSelect' = wkSelect + 1
  /\ UNCHANGED wkExiting

\* executeTask whose loop does not survive a task's panic: the Result is written
\* and the loop leaves runWorker.
WorkerExecFaultEndsLoop(c) ==
  /\ Alive
  /\ c \in wkExec
  /\ \/ Complete(c, "value", FALSE)
     \/ /\ activeTasks' = activeTasks - 1
        /\ queueLength' = queueLength - 1
        /\ errorCount' = errorCount + 2
        /\ Deliver(c, "panicErr")
        /\ Forget(c)
        /\ wkExec' = wkExec \ {c}
        /\ wkExiting' = wkExiting + 1
        /\ UNCHANGED <<completedTasks, wkSelect>>
     \/ /\ ctxDone
        /\ Complete(c, "cancelErr", TRUE)
  /\ UNCHANGED <<activeWorkers, running, ctxDone, tasks, quitClosed, wg, autoScaler,
                 subPc, subRet, ctlVars, panicked>>
  /\ UNCHANGED <<opts, created, snap, extVars>>

\* executeTask whose select also waits for the ctx of the Submit call and reports
\* its error.
WorkerExecCallerCtx(c) ==
  /\ Alive
  /\ c \in wkExec
  /\ \/ Complete(c, "value", FALSE)
     \/ Complete(c, "panicErr", TRUE)
     \/ /\ ctxDone
        /\ Complete(c, "cancelErr", TRUE)
     \/ /\ cancelled[c]
        /\ Complete(c, "ctxErr", TRUE)
  /\ UNCHANGED <<activeWorkers, running, ctxDone, tasks, quitClosed, wg, autoScaler,
                 subPc, subRet, ctlVars, panicked>>
  /\ UNCHANGED <<opts, created, snap, extVars>>

\* executeTask whose select has no case for the pool ctx: the loop waits for
\* the function.
WorkerExecWaitsForFn(c) ==
  /\ Alive
  /\ c \in wkExec
  /\ \/ Complete(c, "value", FALSE)
     \/ Complete(c, "panicErr", TRUE)
  /\ UNCHANGED <<activeWorkers, running, ctxDone, tasks, quitClosed, wg, autoScaler,
                 subPc, subRet, ctlVars, panicked>>
  /\ UNCHANGED <<opts, created, snap, extVars>>

\* executeTask (lines 40-67): task.Fn runs in a goroutine of its own and the
\* loop waits in a select for its value (resultCh), for its recovered panic
\* (errCh), or for the pool ctx to be done.  The function may return or panic at
\* any moment or never, and nothing but this select sees that it has: each
\* outcome is one step together with the select that takes it, and a function that
\* hangs is the one whose first two cases are never taken.
WorkerExec(c) ==
  /\ Alive
  /\ c \in wkExec
  /\ \/ Complete(c, "value", FALSE)
     \/ Complete(c, "panicErr", TRUE)
     \/ /\ ctxDone
        /\ Complete(c, "cancelErr", TRUE)
  /\ UNCHANGED <<activeWorkers, running, ctxDone, tasks, quitClosed, wg, autoScaler,
                 subPc, subRet, ctlVars, panicked>>
  /\ UNCHANGED <<opts, created, snap, extVars>>

\* Deferred calls that leave ActiveWorkers as it is.
WorkerExitSkipsGauge ==
  /\ Alive
  /\ wkExiting > 0
  /\ wg' = wg - 1
  /\ wkExiting' = wkExiting - 1
  /\ UNCHANGED <<activeWorkers, activeTasks, queueLength, completedTasks, errorCount,
                 running, ctxDone, tasks, quitClosed, autoScaler,
                 wkSelect, wkExec, callVars, ctlVars, panicked>>
  /\ UNCHANGED <<envVars, extVars>>

\* the deferred calls of startWorker's goroutine: ActiveWorkers.Add(-1); wg.Done()
WorkerExit ==
  /\ Alive
  /\ wkExiting > 0
  /\ activeWorkers' = activeWorkers - 1
  /\ wg' = wg - 1
  /\ wkExiting' = wkExiting - 1
  /\ UNCHANGED <<activeTasks, queueLength, completedTasks, errorCount,
                 running, ctxDone, tasks, quitClosed, autoScaler,
                 wkSelect, wkExec, callVars, ctlVars, panicked>>
  /\ UNCHANGED <<envVars, extVars>>

\* ---- the controller's calls ----
\* The controller is between two calls.  ops counts the calls that passed their
\* checks after the first successful Start.
CanCall == Alive /\ ctl.pc = "idle" /\ ops < MaxOps
Call(op, pc) == [Idle EXCEPT !.op = op, !.pc = pc]
Return(op, ret) == [Idle EXCEPT !.op = op, !.ret = ret]

\* Start, line 72: running.CompareAndSwap(false, true)
StartCAS ==
  /\ CanCall
  /\ IF running
       THEN /\ ctl' = Return("Start", "err")
            /\ UNCHANGED <<running, phase, ops>>
       ELSE /\ running' = TRUE
            /\ ops' = IF phase = "Created" THEN ops ELSE ops + 1
            /\ phase' = "Running"
            /\ ctl' = [Call("Start", "make") EXCEPT !.swapped = TRUE]
  /\ UNCHANGED <<metricVars, ctxDone, tasks, quitClosed, wg, autoScaler, wkVars,
                 callVars, waitEnd, panicked>>
  /\ UNCHANGED <<envVars, extVars>>

\* Start that makes the queue without its size: an unbuffered channel.
StartMakeUnbuffered ==
  /\ Alive
  /\ ctl.op = "Start" /\ ctl.pc = "make"
  /\ tasks' = [st |-> "open", cap |-> 0, buf |-> <<>>]
  /\ ctl' = [ctl EXCEPT !.pc = "spawn"]
  /\ UNCHANGED <<metricVars, running, ctxDone, quitClosed, wg, autoScaler, wkVars,
                 callVars, ops, waitEnd, phase, panicked>>
  /\ UNCHANGED <<envVars, extVars>>

\* Start, line 76: w.tasks = make(chan Task[T], w.opts.QueueSize)
StartMake ==
  /\ Alive
  /\ ctl.op = "Start" /\ ctl.pc = "make"
  /\ tasks' = [st |-> "open", cap |-> opts.QueueSize, buf |-> <<>>]
  /\ ctl' = [ctl EXCEPT !.pc = "spawn"]
  /\ UNCHANGED <<metricVars, running, ctxDone, quitClosed, wg, autoScaler, wkVars,
                 callVars, ops, waitEnd, phase, panicked>>
  /\ UNCHANGED <<envVars, extVars>>

\* Start, lines 79-81: one startWorker of the loop
StartSpawn ==
  /\ Alive
  /\ ctl.op = "Start" /\ ctl.pc = "spawn"
  /\ ctl.i < opts.MinWorkers
  /\ startWorker
  /\ ctl' = [ctl EXCEPT !.i = @ + 1]
  /\ UNCHANGED <<activeTasks, queueLength, completedTasks, errorCount,
                 running, ctxDone, tasks, quitClosed, autoScaler,
                 callVars, ops, waitEnd, phase, panicked>>
  /\ UNCHANGED <<envVars, extVars>>

\* Start, lines 84-88: start the autoscaler when the pool may grow; return nil
StartReturn ==
  /\ Alive
  /\ ctl.op = "Start" /\ ctl.pc = "spawn"
  /\ ctl.i >= opts.MinWorkers
  /\ autoScaler' = (autoScaler \/ opts.MaxWorkers > opts.MinWorkers)
  /\ ctl' = [Return("Start", "nil") EXCEPT !.swapped = TRUE]
  /\ UNCHANGED <<metricVars, running, ctxDone, tasks, quitClosed, wg, wkVars,
                 callVars, ops, waitEnd, phase, panicked>>
  /\ UNCHANGED <<envVars, extVars>>

\* Stop that stores false instead of swapping: it goes on although the pool was
\* not running.
StopSwapAlways ==
  /\ ctl.pc = "idle" /\ Alive /\ ops < MaxOps
  /\ running' = FALSE
  /\ ops' = ops + 1
  /\ phase' = "Draining"
  /\ ctl' = [Idle EXCEPT !.op = "Stop", !.pc = "cancel", !.swapped = TRUE]
  /\ UNCHANGED <<metricVars, ctxDone, tasks, quitClosed, wg, autoScaler, wkVars,
                 callVars, waitEnd, panicked>>
  /\ UNCHANGED <<envVars, extVars>>

\* Stop, line 93: running.CompareAndSwap(true, false); already stopped: return nil
StopCAS ==
  /\ CanCall
  /\ IF running
       THEN /\ running' = FALSE
            /\ ops' = ops + 1
            /\ phase' = "Draining"
            /\ ctl' = [Call("Stop", "cancel") EXCEPT !.swapped = TRUE]
       ELSE /\ ctl' = Return("Stop", "nil")
            /\ UNCHANGED <<running, phase, ops>>
  /\ UNCHANGED <<metricVars, ctxDone, tasks, quitClosed, wg, autoScaler, wkVars,
                 callVars, waitEnd, panicked>>
  /\ UNCHANGED <<envVars, extVars>>

\* Stop, line 97: w.cancel()
StopCancel ==
  /\ Alive
  /\ ctl.op = "Stop" /\ ctl.pc = "cancel"
  /\ ctxDone' = TRUE
  /\ ctl' = [ctl EXCEPT !.pc = "wait"]
  /\ UNCHANGED <<metricVars, running, tasks, quitClosed, wg, autoScaler, wkVars,
                 callVars, ops, waitEnd, phase, panicked>>
  /\ UNCHANGED <<envVars, extVars>>

\* Stop that counts one error for a timeout instead of the active tasks.
StopWaitCountOne ==
  /\ Alive
  /\ ctl.op = "Stop" /\ ctl.pc = "wait"
  /\ \/ /\ wg = 0
        /\ waitEnd' = "done"
        /\ UNCHANGED errorCount
     \/ /\ waitEnd' = "timeout"
        /\ errorCount' = errorCount + 1
  /\ ctl' = [ctl EXCEPT !.pc = "closeQuit"]
  /\ UNCHANGED <<activeWorkers, activeTasks, queueLength, completedTasks,
                 poolVars, callVars, ops, phase, panicked>>
  /\ UNCHANGED <<envVars, extVars>>

\* Stop, lines 99-111: wait for the loops (wg.Wait) or for the ShutdownTimeout
\* timer; the timer may fire whenever the wait is still on.
StopWait ==
  /\ Alive
  /\ ctl.op = "Stop" /\ ctl.pc = "wait"
  /\ \/ /\ wg = 0
        /\ waitEnd' = "done"
        /\ UNCHANGED errorCount
     \/ /\ waitEnd' = "timeout"
        /\ errorCount' = errorCount + activeTasks
  /\ ctl' = [ctl EXCEPT !.pc = "closeQuit"]
  /\ UNCHANGED <<activeWorkers, activeTasks, queueLength, completedTasks,
                 poolVars, callVars, ops, phase, panicked>>
  /\ UNCHANGED <<envVars, extVars>>

\* Stop, line 113: close(w.quit); closing a closed channel panics
StopCloseQuit ==
  /\ Alive
  /\ ctl.op = "Stop" /\ ctl.pc = "closeQuit"
  /\ IF quitClosed
       THEN /\ panicked' = "Stop"
            /\ UNCHANGED <<quitClosed, ctl>>
       ELSE /\ quitClosed' = TRUE
            /\ ctl' = [ctl EXCEPT !.pc = "closeTasks"]
            /\ UNCHANGED panicked
  /\ waitEnd' = "none"
  /\ UNCHANGED <<metricVars, running, ctxDone, tasks, wg, autoScaler, wkVars,
                 callVars, ops, phase>>
  /\ UNCHANGED <<envVars, extVars>>

\* Stop, lines 114-116: close(w.tasks); return nil
StopCloseTasks ==
  /\ Alive
  /\ ctl.op = "Stop" /\ ctl.pc = "closeTasks"
  /\ IF tasks.st = "open"
       THEN /\ tasks' = [tasks EXCEPT !.st = "closed"]
            /\ phase' = "Stopped"
            /\ ctl' = [Return("Stop", "nil") EXCEPT !.swapped = TRUE]
            /\ UNCHANGED panicked
       ELSE /\ panicked' = "Stop"
            /\ UNCHANGED <<tasks, phase, ctl>>
  /\ UNCHANGED <<metricVars, running, ctxDone, quitClosed, wg, autoScaler, wkVars,
                 callVars, ops, waitEnd>>
  /\ UNCHANGED <<envVars, extVars>>

\* Scale, line 124: the running check
ScaleLoad(d) ==
  /\ CanCall
  /\ IF running
       THEN ctl' = [Call("Scale", "check") EXCEPT !.delta = d]
       ELSE ctl' = Return("Scale", "ErrWorkerStopped")
  /\ UNCHANGED <<metricVars, poolVars, callVars, ops, waitEnd, phase, panicked>>
  /\ UNCHANGED <<envVars, extVars>>

\* Scale whose bounds check forgets the lower bound.
ScaleCheckNoFloor ==
  /\ Alive
  /\ ctl.op = "Scale" /\ ctl.pc = "check"
  /\ LET newCount == activeWorkers + ctl.delta
     IN IF newCount > opts.MaxWorkers
          THEN ctl' = Return("Scale", "errRange") /\ UNCHANGED ops
          ELSE ctl' = [ctl EXCEPT !.pc = "apply"] /\ ops' = ops + 1
  /\ UNCHANGED <<metricVars, poolVars, callVars, waitEnd, phase, panicked>>
  /\ UNCHANGED <<envVars, extVars>>

\* Scale, lines 128-133: read the gauge, check the bounds
ScaleCheck ==
  /\ Alive
  /\ ctl.op = "Scale" /\ ctl.pc = "check"
  /\ LET newCount == activeWorkers + ctl.delta
     IN IF newCount < opts.MinWorkers \/ newCount > opts.MaxWorkers
          THEN ctl' = Return("Scale", "errRange") /\ UNCHANGED ops
          ELSE ctl' = [ctl EXCEPT !.pc = "apply"] /\ ops' = ops + 1
  /\ UNCHANGED <<metricVars, poolVars, callVars, waitEnd, phase, panicked>>
  /\ UNCHANGED <<envVars, extVars>>

Abs(n) == IF n < 0 THEN -n ELSE n

\* After the last iteration of Scale's loop the call returns nil.
Iterate == IF ctl.i + 1 >= Abs(ctl.delta) THEN Return("Scale", "nil")
           ELSE [ctl EXCEPT !.i = @ + 1]

\* Scale, lines 135-149: one iteration of the loop.
\* delta < 0: select { case w.quit <- struct{}{}: default: return error }.  The send
\* succeeds when a loop is blocked in its select and takes the signal; a loop that
\* has not reached its select yet cannot take it, so the default case may be taken
\* although a loop is idle.  A send on the closed w.quit panics.
ScaleApply ==
  /\ Alive
  /\ ctl.op = "Scale" /\ ctl.pc = "apply"
  /\ \/ /\ ctl.delta > 0
        /\ startWorker
        /\ ctl' = Iterate
        /\ UNCHANGED panicked
     \/ /\ ctl.delta < 0
        /\ ~quitClosed
        /\ Parked
        /\ LeaveLoop
        /\ ctl' = Iterate
        /\ UNCHANGED <<wg, activeWorkers, panicked>>
     \/ /\ ctl.delta < 0
        /\ ~quitClosed
        /\ ctl' = Return("Scale", "errScale")
        /\ UNCHANGED <<wkVars, wg, activeWorkers, panicked>>
     \/ /\ ctl.delta < 0
        /\ quitClosed
        /\ panicked' = "Scale"
        /\ UNCHANGED <<wkVars, wg, activeWorkers, ctl>>
  /\ UNCHANGED <<activeTasks, queueLength, completedTasks, errorCount,
                 running, ctxDone, tasks, quitClosed, autoScaler,
                 callVars, ops, waitEnd, phase>>
  /\ UNCHANGED <<envVars, extVars>>

Next ==
  \/ \E c \in Calls : SubmitLoad(c) \/ SubmitSelect(c) \/ SubmitInc(c)
  \/ WorkerSelect \/ WorkerExit
  \/ \E c \in Calls : WorkerExec(c)
  \/ StartCAS \/ StartMake \/ StartSpawn \/ StartReturn
  \/ StopCAS \/ StopCancel \/ StopWait \/ StopCloseQuit \/ StopCloseTasks
  \/ \E d \in Deltas : ScaleLoad(d)
  \/ ScaleCheck \/ ScaleApply

Spec == Init /\ [][Next]_vars

\* ---- the pool with callers whose ctx becomes done after Submit has returned ----
NextCancel ==
  \/ \E c \in Calls : CancelFire(c)
  \/ \E c \in Calls : SubmitLoad(c) \/ SubmitSelect(c) \/ SubmitInc(c)
  \/ WorkerSelect \/ WorkerExit
  \/ \E c \in Calls : WorkerExec(c)
  \/ StartCAS \/ StartMake \/ StartSpawn \/ StartReturn
  \/ StopCAS \/ StopCancel \/ StopWait \/ StopCloseQuit \/ StopCloseTasks

SpecCancel == Init /\ [][NextCancel]_vars

\* ---- a running pool with one worker loop and one client ----
\* MinWorkers = MaxWorkers = 1 and a queue of two; the client issues its Submit
\* calls one after the other, so the calls are admitted in the order of their
\* numbers.
InitFifo ==
  /\ opts = [MinWorkers |-> 1, MaxWorkers |-> 1, QueueSize |-> 2]
  /\ validateOptions(opts) = "nil"
  /\ created = "pool"
  /\ Fresh
  /\ PoolOnly

NextSubmit(c) ==
  /\ \A d \in Calls : d < c => subPc[d] = "done"
  /\ SubmitLoad(c)

NextFifo ==
  \/ \E c \in Calls : NextSubmit(c) \/ SubmitSelect(c) \/ SubmitInc(c)
  \/ WorkerSelect
  \/ \E c \in Calls : WorkerExec(c)
  \/ StartCAS \/ StartMake \/ StartSpawn \/ StartReturn

SpecFifo == InitFifo /\ [][NextFifo]_vars

\* ---- the pool with an observer that calls Metrics() ----
\* Metrics (worker.go lines 119-121) returns w.metrics, a struct of pointers to
\* the atomics (types.go lines 70-80): the value returned holds the pool's own
\* pointers.
MetricsCall ==
  /\ Alive
  /\ ~snap.taken
  /\ snap' = [taken |-> TRUE, atCall |-> Gauges]
  /\ UNCHANGED <<metricVars, poolVars, callVars, ctlVars, opts, created, cancelled,
                 panicked, extVars>>

\* What a holder of the returned value reads from it now: each field is loaded
\* through its pointer, from the atomic the pool itself updates.
SnapshotRead == Gauges

NextMetrics ==
  \/ MetricsCall
  \/ Next

SpecMetrics == Init /\ [][NextMetrics]_vars

\* ---- NewWorker on any Options ----
InitNewWorker ==
  /\ opts \in [MinWorkers : OptRange, MaxWorkers : OptRange, QueueSize : OptRange]
  /\ created = "none"
  /\ Fresh
  /\ PoolOnly

\* NewWorker (worker.go lines 32-43): validate the Options, then build the pool.
NewWorker ==
  /\ created = "none"
  /\ created' = IF validateOptions(opts) = "nil" THEN "pool" ELSE "error"
  /\ UNCHANGED <<metricVars, poolVars, callVars, ctlVars, opts, cancelled, snap,
                 panicked, extVars>>

SpecNewWorker == InitNewWorker /\ [][NewWorker]_vars

\* ---- the counter registry: type Metrics of worker.go lines 159-298 ----
\* Its methods are called one after the other (nothing else runs: the pool is
\* idle), MaxRegCalls calls in all.
Durations == {0, 10, 25}
RegCounters == RegFields \ {"averageTime"}
RegStep(name) ==
  /\ regCall.n < MaxRegCalls
  /\ regCall' = [regCall EXCEPT !.last = name, !.n = @ + 1]
  /\ UNCHANGED exceptReg

\* IncrementTaskCount ... IncrementActiveWorkers (lines 197-227): counter.Add(delta)
Increment(f, delta) ==
  /\ RegStep("Increment")
  /\ reg' = [reg EXCEPT ![f] = @ + delta]
  /\ UNCHANGED regGot

\* UpdateAverageTime (lines 265-270):
\* time.Duration(float64(oldAvg)*(1-alpha) + float64(duration)*alpha), alpha = 0.1;
\* the conversion truncates, and for these durations the floating-point value
\* truncates to (9*oldAvg + duration) div 10.
UpdateAverageTime(duration) ==
  /\ RegStep("UpdateAverageTime")
  /\ reg' = [reg EXCEPT !.averageTime = (9 * @ + duration) \div 10]
  /\ UNCHANGED regGot

\* Reset that leaves errorCount as it is.
ResetKeepsErrorCount ==
  /\ regCall.n < MaxRegCalls
  /\ reg' = [RegZero EXCEPT !.errorCount = reg.errorCount]
  /\ regCall' = [last |-> "Reset", n |-> regCall.n + 1, dirty |-> reg # RegZero]
  /\ UNCHANGED <<regGot, exceptReg>>

\* Reset (lines 273-284): Store(0) on each of the eight counters, and
\* averageTime.Store(time.Duration(0)).
Reset ==
  /\ regCall.n < MaxRegCalls
  /\ reg' = RegZero
  /\ regCall' = [last |-> "Reset", n |-> regCall.n + 1, dirty |-> reg # RegZero]
  /\ UNCHANGED <<regGot, exceptReg>>

\* GetTaskCount ... GetAverageTime (lines 229-263), one after the other: each
\* returns counter.Load().  last = "ResetGet": the round came right after a Reset.
Get ==
  /\ regCall.n < MaxRegCalls
  /\ regGot' = reg
  /\ regCall' = [regCall EXCEPT !.n = @ + 1,
                   !.last = IF regCall.last = "Reset" THEN "ResetGet" ELSE "Get"]
  /\ UNCHANGED <<reg, exceptReg>>

NextRegistry ==
  \/ \E f \in RegCounters, delta \in Deltas : Increment(f, delta)
  \/ \E duration \in Durations : UpdateAverageTime(duration)
  \/ Reset
  \/ Get

\* A registry fresh from NewMetrics, beside a pool fresh from NewWorker.
InitRegistry ==
  /\ opts = [MinWorkers |-> MinWorkers, MaxWorkers |-> MaxWorkers,
             QueueSize |-> QueueSize]
  /\ created = "pool"
  /\ Fresh
  /\ NewMetrics
  /\ NoTick /\ NoManager /\ NoBool /\ NoOthers

SpecRegistry == InitRegistry /\ [][NextRegistry]_vars

\* ---- the lifecycle manager (src/lifecycle/lifecycle.go) ----
\* NumHooks goroutines each register one non-nil hook; NumShut calls of
\* BeginShutdown, one call of ShutdownContext and one of Wait are made from
\* other goroutines.  No signal arrives (the goroutine of lines 89-100 stays at
\* its receive).  A context is "background", "sd" (the one of line 146) or
\* "nil".

\* A read of m.sdCtx.  Line 146 writes the field after the CAS of line 140 and
\* with no lock held, so a reader that saw state # Running may run before the
\* write (nil), or after it with nothing that orders the two (a data race:
\* the old or the new value).  synced: the write happens before this read.
sdCtxRead(synced) ==
  IF ~lc.sdSet THEN {"nil"}
  ELSE IF synced THEN {"sd"}
  ELSE {"nil", "sd"}

\* shutdownCtx (lines 108-114)
shutdownCtx(synced) ==
  IF lc.state = "Running" THEN {"background"} ELSE sdCtxRead(synced)

\* ShutdownContext (lines 21-23).  complete's CAS to Stopped comes after the
\* write of line 146 in a goroutine started after it.
ShutdownContext ==
  /\ lcObs.got = "none"
  /\ \E c \in shutdownCtx(lc.state = "Stopped") : lcObs' = [lcObs EXCEPT !.got = c]
  /\ UNCHANGED <<lc, lcPc, hook, exceptLc>>

\* register (lines 123-135), fn # nil: m.mu.Lock() and the load of m.state
RegisterLock(h) ==
  /\ hook[h].pc = "idle"
  /\ lc.mu = 0
  /\ lc' = [lc EXCEPT !.mu = h]
  /\ hook' = [hook EXCEPT ![h].pc = IF lc.state # "Running" THEN "go" ELSE "append"]
  /\ UNCHANGED <<lcPc, lcObs, exceptLc>>

\* line 131: go fn(m.shutdownCtx()), then the deferred Unlock.  The lock orders
\* the read after line 146 once runHooks has taken and released it.
RegisterGo(h) ==
  /\ hook[h].pc = "go"
  /\ \E c \in shutdownCtx(lc.state = "Stopped" \/ lcPc.run \notin {"none", "copy"}) :
       hook' = [hook EXCEPT ![h] = [pc |-> "returned", n |-> @.n + 1,
                                    st |-> "running", ctx |-> c, inWg |-> FALSE]]
  /\ lc' = [lc EXCEPT !.mu = 0]
  /\ UNCHANGED <<lcPc, lcObs, exceptLc>>

\* line 134: m.hooks = append(m.hooks, fn), then the deferred Unlock
RegisterAppend(h) ==
  /\ hook[h].pc = "append"
  /\ lc' = [lc EXCEPT !.hooks = Append(@, h), !.mu = 0]
  /\ hook' = [hook EXCEPT ![h].pc = "returned"]
  /\ UNCHANGED <<lcPc, lcObs, exceptLc>>

\* beginShutdown (lines 137-155), the call that once.Do runs: the CAS of line 140
BeginShutdownCAS ==
  /\ lc.once = "fresh"
  /\ lcObs.calls < NumShut
  /\ IF lc.state = "Running"
       THEN /\ lc' = [lc EXCEPT !.once = "running", !.state = "Shutting"]
            /\ lcPc' = [lcPc EXCEPT !.begin = "ctx"]
            /\ UNCHANGED lcObs
       ELSE /\ lc' = [lc EXCEPT !.once = "done"]
            /\ lcObs' = [lcObs EXCEPT !.calls = @ + 1]
            /\ UNCHANGED lcPc
  /\ UNCHANGED <<hook, exceptLc>>

\* lines 144-153: m.appCancel(); m.sdCtx, m.sdCancel = context.WithTimeout(...);
\* go m.runHooks(); go func() { <-m.sdCtx.Done(); m.complete() }()
BeginShutdownCtx ==
  /\ lcPc.begin = "ctx"
  /\ lc' = [lc EXCEPT !.sdSet = TRUE, !.once = "done"]
  /\ lcPc' = [lcPc EXCEPT !.begin = "end", !.run = "copy", !.timer = "wait"]
  /\ lcObs' = [lcObs EXCEPT !.calls = @ + 1]
  /\ UNCHANGED <<hook, exceptLc>>

\* a BeginShutdown call after the first: once.Do returns when the first is over
BeginShutdownAgain ==
  /\ lc.once = "done"
  /\ lcObs.calls < NumShut
  /\ lcObs' = [lcObs EXCEPT !.calls = @ + 1]
  /\ UNCHANGED <<lc, lcPc, hook, exceptLc>>

\* runHooks that copies m.hooks without taking m.mu.
runHooksCopyUnlocked ==
  /\ lcPc.run = "copy"
  /\ lcPc' = [lcPc EXCEPT !.run = "launch", !.copied = lc.hooks]
  /\ UNCHANGED <<lc, hook, lcObs, exceptLc>>

\* runHooks (lines 157-174), lines 158-161: Lock, copy m.hooks, Unlock
runHooksCopy ==
  /\ lcPc.run = "copy"
  /\ lc.mu = 0
  /\ lcPc' = [lcPc EXCEPT !.run = "launch", !.copied = lc.hooks]
  /\ UNCHANGED <<lc, hook, lcObs, exceptLc>>

InCopy(h) == \E k \in 1..Len(lcPc.copied) : lcPc.copied[k] = h

\* lines 163-169: for each copied hook, m.wg.Add(1) and go fn(m.sdCtx)
runHooksLaunch ==
  /\ lcPc.run = "launch"
  /\ hook' = [h \in Hooks |->
                IF InCopy(h)
                  THEN [hook[h] EXCEPT !.n = @ + 1, !.st = "running", !.ctx = "sd",
                                       !.inWg = TRUE]
                  ELSE hook[h]]
  /\ lc' = [lc EXCEPT !.wg = @ + Len(lcPc.copied)]
  /\ lcPc' = [lcPc EXCEPT !.run = "wait"]
  /\ UNCHANGED <<lcObs, exceptLc>>

\* a hook returns; one started by runHooks runs the deferred m.wg.Done()
HookReturn(h) ==
  /\ hook[h].st = "running"
  /\ hook' = [hook EXCEPT ![h].st = "finished"]
  /\ lc' = [lc EXCEPT !.wg = IF hook[h].inWg THEN @ - 1 ELSE @]
  /\ UNCHANGED <<lcPc, lcObs, exceptLc>>

\* the deadline of m.sdCtx (m.timeout after line 146) passes
TimeoutExpires ==
  /\ lc.sdSet
  /\ ~lc.expired /\ ~lc.cancelled
  /\ lc' = [lc EXCEPT !.expired = TRUE]
  /\ UNCHANGED <<lcPc, hook, lcObs, exceptLc>>

\* complete that goes on whatever the state is, without the CAS.
completeNoCAS(g) ==
  /\ lc' = [lc EXCEPT !.state = "Stopped"]
  /\ lcPc' = [lcPc EXCEPT ![g] = "close"]
  /\ UNCHANGED <<hook, lcObs, exceptLc>>

\* complete (lines 176-184), line 177: CAS Shutting -> Stopped, by goroutine g
completeCAS(g) ==
  /\ IF lc.state = "Shutting"
       THEN /\ lc' = [lc EXCEPT !.state = "Stopped"]
            /\ lcPc' = [lcPc EXCEPT ![g] = "close"]
       ELSE /\ lcPc' = [lcPc EXCEPT ![g] = "end"]
            /\ UNCHANGED lc
  /\ UNCHANGED <<hook, lcObs, exceptLc>>

\* lines 172-173: m.wg.Wait() returns, m.complete()
runHooksWait ==
  /\ lcPc.run = "wait"
  /\ lc.wg = 0
  /\ completeCAS("run")

\* lines 151-152: <-m.sdCtx.Done() returns, m.complete()
TimerDone ==
  /\ lcPc.timer = "wait"
  /\ lc.expired \/ lc.cancelled
  /\ completeCAS("timer")

\* lines 180-183: m.sdCancel(); close(m.done)
completeClose(g) ==
  /\ lcPc[g] = "close"
  /\ lc' = [lc EXCEPT !.cancelled = TRUE, !.done = @ + 1]
  /\ lcPc' = [lcPc EXCEPT ![g] = "end"]
  /\ UNCHANGED <<hook, lcObs, exceptLc>>

\* Wait (lines 35-36): <-def.done
Wait ==
  /\ ~lcObs.waited
  /\ lc.done > 0
  /\ lcObs' = [lcObs EXCEPT !.waited = TRUE]
  /\ UNCHANGED <<lc, lcPc, hook, exceptLc>>

NextLifecycle ==
  \/ ShutdownContext
  \/ \E h \in Hooks : RegisterLock(h) \/ RegisterGo(h) \/ RegisterAppend(h)
  \/ BeginShutdownCAS \/ BeginShutdownCtx \/ BeginShutdownAgain
  \/ runHooksCopy \/ runHooksLaunch \/ runHooksWait
  \/ \E h \in Hooks : HookReturn(h)
  \/ TimeoutExpires \/ TimerDone
  \/ \E g \in {"run", "timer"} : completeClose(g)
  \/ Wait

\* The package's manager, def (line 47), fresh from newManager.
InitLifecycle ==
  /\ opts = [MinWorkers |-> MinWorkers, MaxWorkers |-> MaxWorkers,
             QueueSize |-> QueueSize]
  /\ created = "pool"
  /\ Fresh
  /\ newManager
  /\ NoTick /\ NoRegistry /\ NoBool /\ NoOthers

SpecLifecycle == InitLifecycle /\ [][NextLifecycle]_vars

\* ---- tools.Bool (src/tools/atomicBool.go): concurrent Toggle calls ----
\* NumTogglers goroutines each call Toggle once on one Bool; nothing else
\* writes it.
InitToggle ==
  /\ opts = [MinWorkers |-> MinWorkers, MaxWorkers |-> MaxWorkers,
             QueueSize |-> QueueSize]
  /\ created = "pool"
  /\ Fresh
  /\ NoTick /\ NoRegistry /\ NoManager /\ NoOthers
  /\ \E initial \in BOOLEAN : NewBool(initial)

\* Toggle (lines 57-68), lines 59-63: old := Load(&b.value); new := 1, or 0 if
\* old # 0
ToggleLoad(p) ==
  /\ toggler[p].pc \in {"idle", "load"}
  /\ toggler' = [toggler EXCEPT ![p].pc = "cas", ![p].old = bvalue,
                                ![p].new = IF bvalue # 0 THEN 0 ELSE 1,
                                ![p].loads = @ + 1]
  /\ UNCHANGED <<bvalue, toggled, exceptBool>>

\* Toggle that stores new without comparing.
ToggleStore(p) ==
  /\ toggler[p].pc = "cas"
  /\ bvalue' = toggler[p].new
  /\ toggled' = [toggled EXCEPT !.log = Append(@, [by |-> p, value |-> toggler[p].new])]
  /\ toggler' = [toggler EXCEPT ![p].pc = "done", ![p].ret = toggler[p].new # 0]
  /\ UNCHANGED exceptBool

\* lines 64-66: if CompareAndSwap(&b.value, old, new) { return new != 0 };
\* otherwise the loop starts over
ToggleCAS(p) ==
  /\ toggler[p].pc = "cas"
  /\ IF bvalue = toggler[p].old
       THEN /\ bvalue' = toggler[p].new
            /\ toggled' = [toggled EXCEPT
                             !.log = Append(@, [by |-> p, value |-> toggler[p].new])]
            /\ toggler' = [toggler EXCEPT ![p].pc = "done",
                                          ![p].ret = toggler[p].new # 0]
       ELSE /\ toggler' = [toggler EXCEPT ![p].pc = "load"]
            /\ UNCHANGED <<bvalue, toggled>>
  /\ UNCHANGED exceptBool

NextToggle == \E p \in Togglers : ToggleLoad(p) \/ ToggleCAS(p)

SpecToggle == InitToggle /\ [][NextToggle]_vars

\* ---- the autoscaler's tick: adjustWorkerCount (worker_internal.go 111-132) ----
\* processingRate := float64(completedTasks) / float64(activeWorkers), compared
\* with 0.8 and 0.2.  For the integers of the model the float64 comparison agrees
\* with the exact one, written here without division; a zero divisor gives
\* +Inf, -Inf or NaN (0/0), and every comparison with NaN is false.
RateAtLeast08(completed, workers) ==
  IF workers > 0 THEN 5 * completed >= 4 * workers
  ELSE IF workers < 0 THEN 5 * completed <= 4 * workers
  ELSE completed > 0
RateBelow02(completed, workers) ==
  IF workers > 0 THEN 5 * completed < workers
  ELSE IF workers < 0 THEN 5 * completed > workers
  ELSE completed < 0

min(a, b) == IF a < b THEN a ELSE b

\* The switch with `processingRate <= 0.2` in its second case.
adjustWorkerCountLaxRate(queueLen, workers, completed, o) ==
  IF /\ queueLen > workers * 2
     /\ RateAtLeast08(completed, workers)
     /\ workers < o.MaxWorkers
    THEN min(o.MaxWorkers - workers, 2)
  ELSE IF /\ queueLen = 0
          /\ RateBelow02(completed, workers) \/ 5 * completed = workers
          /\ workers > o.MinWorkers
    THEN -1
  ELSE 0

\* The switch of lines 119-131: the argument of the Scale call it makes, 0 if it
\* makes none.
adjustWorkerCount(queueLen, workers, completed, o) ==
  IF /\ queueLen > workers * 2
     /\ RateAtLeast08(completed, workers)
     /\ workers < o.MaxWorkers
    THEN min(o.MaxWorkers - workers, 2)
  ELSE IF /\ queueLen = 0
          /\ RateBelow02(completed, workers)
          /\ workers > o.MinWorkers
    THEN -1
  ELSE 0

\* Any Options NewWorker accepts and Start runs the autoscaler for (line 84 of
\* worker.go: MaxWorkers > MinWorkers), and any values of the three gauges in the
\* locals of a tick: the queue length goes up to more than twice the highest
\* worker count and MaxWorkers to more than that count, so that every case of
\* the switch occurs for every worker count.  The worker count is the gauge,
\* which Scale calls that pass the check of lines 128-133 together raise above
\* MaxWorkers.
InitTick ==
  /\ opts \in [MinWorkers : OptRange, MaxWorkers : -1..MaxGauge + 1,
               QueueSize : {QueueSize}]
  /\ validateOptions(opts) = "nil"
  /\ opts.MaxWorkers > opts.MinWorkers
  /\ created = "pool"
  /\ Fresh
  /\ tick \in [queueLen : 0..2 * MaxGauge + 1, activeWorkers : 0..MaxGauge + 1,
               completedTasks : 0..MaxGauge, done : {FALSE}, arg : {0}]
  /\ NoRegistry /\ NoManager /\ NoBool /\ NoOthers

\* the ticker.C case of autoScale (lines 103-104), after the loads of lines 112-114
Tick ==
  /\ ~tick.done
  /\ tick' = [tick EXCEPT !.done = TRUE,
                !.arg = adjustWorkerCount(tick.queueLen, tick.activeWorkers,
                                          tick.completedTasks, opts)]
  /\ UNCHANGED exceptTick

SpecTick == InitTick /\ [][Tick]_vars

\* ---- the pool with a Scale call beside the controller's Start and Stop ----
\* Scale is called by the autoscaler's goroutine (adjustWorkerCount, lines 124
\* and 130 of worker_internal.go, after the ticker.C case of a select that does
\* not prefer w.ctx.Done()) and by any caller of the interface: either one runs
\* beside the controller's calls.  MaxScales such calls are made, one after the
\* other; the pool takes no Submit here.
extButScaler == <<taskCount, tickVars, regVars, lcVars, boolVars, waiter, machine>>
ScalerIdle == [pc |-> "idle", delta |-> 0, i |-> 0, ret |-> "none", n |-> 0]
ScalerReturn(ret) == [ScalerIdle EXCEPT !.ret = ret, !.n = scaler.n]

InitRace ==
  /\ opts = [MinWorkers |-> MinWorkers, MaxWorkers |-> MaxWorkers,
             QueueSize |-> QueueSize]
  /\ validateOptions(opts) = "nil"
  /\ created = "pool"
  /\ Fresh
  /\ NoTick /\ NoRegistry /\ NoManager /\ NoBool /\ NoWaiter /\ NoMachine
  /\ scaler = ScalerIdle

\* Scale, line 124: the running check
ScalerLoad(d) ==
  /\ Alive
  /\ scaler.pc = "idle"
  /\ scaler.n < MaxScales
  /\ IF running
       THEN scaler' = [ScalerIdle EXCEPT !.pc = "check", !.delta = d,
                                         !.n = scaler.n + 1]
       ELSE scaler' = [ScalerIdle EXCEPT !.ret = "ErrWorkerStopped",
                                         !.n = scaler.n + 1]
  /\ UNCHANGED <<poolAll, extButScaler>>

\* Scale, lines 128-133: read the gauge, check the bounds
ScalerCheck ==
  /\ Alive
  /\ scaler.pc = "check"
  /\ LET newCount == activeWorkers + scaler.delta
     IN IF newCount < opts.MinWorkers \/ newCount > opts.MaxWorkers
          THEN scaler' = ScalerReturn("errRange")
          ELSE scaler' = [scaler EXCEPT !.pc = "apply"]
  /\ UNCHANGED <<poolAll, extButScaler>>

ScalerIterate == IF scaler.i + 1 >= Abs(scaler.delta) THEN ScalerReturn("nil")
                 ELSE [scaler EXCEPT !.i = @ + 1]

\* Scale, lines 135-149: one iteration of the loop, as in ScaleApply.
ScalerApply ==
  /\ Alive
  /\ scaler.pc = "apply"
  /\ \/ /\ scaler.delta > 0
        /\ startWorker
        /\ scaler' = ScalerIterate
        /\ UNCHANGED panicked
     \/ /\ scaler.delta < 0
        /\ ~quitClosed
        /\ Parked
        /\ LeaveLoop
        /\ scaler' = ScalerIterate
        /\ UNCHANGED <<wg, activeWorkers, panicked>>
     \/ /\ scaler.delta < 0
        /\ ~quitClosed
        /\ scaler' = ScalerReturn("errScale")
        /\ UNCHANGED <<wkVars, wg, activeWorkers, panicked>>
     \/ /\ scaler.delta < 0
        /\ quitClosed
        /\ panicked' = "Scale"
        /\ UNCHANGED <<wkVars, wg, activeWorkers, scaler>>
  /\ UNCHANGED <<activeTasks, queueLength, completedTasks, errorCount,
                 running, ctxDone, tasks, quitClosed, autoScaler,
                 callVars, ctlVars, envVars, extButScaler>>

NextRace ==
  \/ WorkerSelect \/ WorkerExit
  \/ StartCAS \/ StartMake \/ StartSpawn \/ StartReturn
  \/ StopCAS \/ StopCancel \/ StopWait \/ StopCloseQuit \/ StopCloseTasks
  \/ \E d \in Deltas : ScalerLoad(d)
  \/ ScalerCheck \/ ScalerApply

SpecRace == InitRace /\ [][NextRace]_vars

\* ---- WaiterContext (waiter.go) ----
\* WitchWaiter derives ctx from the caller's parent (context.WithCancel), keeps
\* it as wc.parent and starts watchParent.  wc.parent ends when the returned
\* CancelFunc calls wc.cancelFunc, or when the caller's parent is cancelled or
\* passes its deadline; its Err() is then Canceled or DeadlineExceeded.
\* Observers call Done() and then Err() on the WaiterContext.
Observers == 1..NumObservers
exceptWaiter == <<poolAll, taskCount, tickVars, regVars, lcVars, boolVars,
                  scaler, machine>>

\* WitchWaiter (lines 19-28): done is open, err holds nothing, watchParent waits.
WitchWaiter ==
  waiter = [parent |-> "live", done |-> FALSE, err |-> "nil", pc |-> "wait",
            cancelFunc |-> "idle",
            obs |-> [o \in Observers |->
                       [pc |-> "idle", closed |-> FALSE, err |-> "nil"]]]

InitWaiter ==
  /\ opts = [MinWorkers |-> MinWorkers, MaxWorkers |-> MaxWorkers,
             QueueSize |-> QueueSize]
  /\ created = "pool"
  /\ Fresh
  /\ NoTick /\ NoRegistry /\ NoManager /\ NoBool /\ NoScaler /\ NoMachine
  /\ WitchWaiter

\* the caller's parent is cancelled or passes its deadline: wc.parent, derived
\* from it, is done with the same error
ParentEnds(cause) ==
  /\ waiter.parent = "live"
  /\ waiter' = [waiter EXCEPT !.parent = cause]
  /\ UNCHANGED exceptWaiter

\* CancelFunc (lines 57-60): wc.cancelFunc(); wc.wg.Wait().  Nothing adds to
\* wc.wg, so the Wait returns at once.
CancelFunc ==
  /\ waiter.cancelFunc = "idle"
  /\ waiter' = [waiter EXCEPT !.cancelFunc = "returned",
                  !.parent = IF @ = "live" THEN "Canceled" ELSE @]
  /\ UNCHANGED exceptWaiter

\* watchParent, lines 31-34: <-wc.parent.Done(); closeOnce.Do(close(wc.done))
watchParentClose ==
  /\ waiter.pc = "wait"
  /\ waiter.parent # "live"
  /\ waiter' = [waiter EXCEPT !.done = TRUE, !.pc = "store"]
  /\ UNCHANGED exceptWaiter

\* watchParent, line 35: wc.err.Store(wc.parent.Err())
watchParentStore ==
  /\ waiter.pc = "store"
  /\ waiter' = [waiter EXCEPT !.err = waiter.parent, !.pc = "end"]
  /\ UNCHANGED exceptWaiter

\* Done (lines 42-44): the observer looks whether the channel is closed
Done(o) ==
  /\ waiter.obs[o].pc = "idle"
  /\ waiter' = [waiter EXCEPT !.obs[o].pc = "sawDone",
                              !.obs[o].closed = waiter.done]
  /\ UNCHANGED exceptWaiter

\* Err (lines 46-51): wc.err.Load(), nil while nothing was stored
Err(o) ==
  /\ waiter.obs[o].pc = "sawDone"
  /\ waiter' = [waiter EXCEPT !.obs[o].pc = "end", !.obs[o].err = waiter.err]
  /\ UNCHANGED exceptWaiter

NextWaiter ==
  \/ \E cause \in {"Canceled", "DeadlineExceeded"} : ParentEnds(cause)
  \/ CancelFunc
  \/ watchParentClose \/ watchParentStore
  \/ \E o \in Observers : Done(o) \/ Err(o)

SpecWaiter == InitWaiter /\ [][NextWaiter]_vars

\* ---- the state machine (package statemachine) ----
\* NewStateMachine(state 0) builds the StateContext and starts its worker.  Each
\* state is a BaseState with NumTasks tasks; task <<s, k>> is the k-th task of
\* state s.  One caller calls Run(), then TransitionTo(1) .. TransitionTo(
\* NumTransitions) one after the other, then Stop().
SmStates == 0..NumTransitions
SmTasks == 1..NumTasks
exceptMachine == <<poolAll, taskCount, tickVars, regVars, lcVars, boolVars,
                   scaler, waiter>>

\* NewStateContext (statecontext.go lines 15-24): the worker is at its select;
\* senders are the goroutines of AddTask blocked in `sc.tasks <- task`.
NewStateContext ==
  machine = [currentState |-> 0, wg |-> 0, senders |-> {}, quit |-> FALSE,
             worker |-> [pc |-> "select", task |-> <<>>, i |-> 0],
             caller |-> [pc |-> "Run", to |-> 0, i |-> 0]]

InitMachine ==
  /\ opts = [MinWorkers |-> MinWorkers, MaxWorkers |-> MaxWorkers,
             QueueSize |-> QueueSize]
  /\ created = "pool"
  /\ Fresh
  /\ NoTick /\ NoRegistry /\ NoManager /\ NoBool /\ NoScaler /\ NoWaiter
  /\ NewStateContext

\* AddTask (lines 42-47): sc.wg.Add(1); go func() { sc.tasks <- task }()
AddTask(m, t) == [m EXCEPT !.wg = @ + 1, !.senders = @ \cup {t}]

\* Run (machine.go lines 24-26): Enter of the current state in the caller's
\* goroutine; BaseState.Enter (state.go lines 21-26) adds the tasks one by one.
RunEnter ==
  /\ machine.caller.pc = "Run"
  /\ IF machine.caller.i < NumTasks
       THEN machine' = [AddTask(machine, <<machine.currentState, machine.caller.i + 1>>)
                          EXCEPT !.caller.i = @ + 1]
       ELSE machine' = [machine EXCEPT !.caller = [pc |-> "Wait", to |-> 1, i |-> 0]]
  /\ UNCHANGED exceptMachine

\* TransitionTo -> WaitAndTransition, line 50: sc.wg.Wait()
WaitAndTransitionWait ==
  /\ machine.caller.pc = "Wait"
  /\ machine.wg = 0
  /\ machine' = [machine EXCEPT !.caller.pc = "Send"]
  /\ UNCHANGED exceptMachine

\* WaitAndTransition, line 51: sc.stateChan <- newState, an unbuffered channel:
\* the send completes when the worker's select takes its second case (lines
\* 32-34): Exit, sc.currentState = newState, and Enter begins.
WaitAndTransitionSend ==
  /\ machine.caller.pc = "Send"
  /\ machine.worker.pc = "select"
  /\ machine' = [machine EXCEPT
                   !.currentState = machine.caller.to,
                   !.worker = [pc |-> "Enter", task |-> <<>>, i |-> 0],
                   !.caller = IF machine.caller.to < NumTransitions
                                THEN [pc |-> "Wait", to |-> machine.caller.to + 1, i |-> 0]
                                ELSE [pc |-> "Stop", to |-> 0, i |-> 0]]
  /\ UNCHANGED exceptMachine

\* worker, line 35: sc.currentState.Enter(sc), one AddTask of its loop; after
\* the last one the worker is back at its select.
workerEnter ==
  /\ machine.worker.pc = "Enter"
  /\ IF machine.worker.i < NumTasks
       THEN machine' = [AddTask(machine, <<machine.currentState, machine.worker.i + 1>>)
                          EXCEPT !.worker.i = @ + 1]
       ELSE machine' = [machine EXCEPT !.worker = [pc |-> "select", task |-> <<>>, i |-> 0]]
  /\ UNCHANGED exceptMachine

\* worker, lines 29-30: the select takes a task from one of the senders and
\* calls it
workerTask(t) ==
  /\ machine.worker.pc = "select"
  /\ t \in machine.senders
  /\ machine' = [machine EXCEPT !.senders = @ \ {t},
                                !.worker = [pc |-> "task", task |-> t, i |-> 0]]
  /\ UNCHANGED exceptMachine

\* worker, lines 30-31: task() returns; sc.wg.Done()
workerTaskDone ==
  /\ machine.worker.pc = "task"
  /\ machine' = [machine EXCEPT !.wg = @ - 1,
                                !.worker = [pc |-> "select", task |-> <<>>, i |-> 0]]
  /\ UNCHANGED exceptMachine

\* Stop (machine.go lines 28-30, statecontext.go lines 54-56): close(sc.quit)
MachineStop ==
  /\ machine.caller.pc = "Stop"
  /\ machine' = [machine EXCEPT !.quit = TRUE, !.caller.pc = "end"]
  /\ UNCHANGED exceptMachine

\* worker, lines 36-37: the select takes <-sc.quit and the worker returns
workerQuit ==
  /\ machine.worker.pc = "select"
  /\ machine.quit
  /\ machine' = [machine EXCEPT !.worker.pc = "returned"]
  /\ UNCHANGED exceptMachine

NextMachine ==
  \/ RunEnter
  \/ WaitAndTransitionWait \/ WaitAndTransitionSend
  \/ workerEnter
  \/ \E t \in SmStates \X SmTasks : workerTask(t)
  \/ workerTaskDone
  \/ MachineStop \/ workerQuit

SpecMachine == InitMachine /\ [][NextMachine]_vars

\* ---- properties ----
Accepted(c) == subPc[c] = "done" /\ subRet[c] = "nil"
Rejected(c) == subPc[c] = "done" /\ subRet[c] \in {"ErrWorkerStopped", "ctxErr"}
InBounds(n) == opts.MinWorkers <= n /\ n <= opts.MaxWorkers
StopStep == ctl.op = "Stop" /\ ctl.pc = "wait" /\ ctl'.pc # "wait"
Enqueues == Len(tasks'.buf) > Len(tasks.buf)
Full == tasks.st # "closed" /\ Len(tasks.buf) = tasks.cap
Quiescent ==
  /\ Alive
  /\ phase = "Stopped"
  /\ ctl.pc = "idle"
  /\ Goroutines = 0
  /\ \A c \in Calls : subPc[c] \in {"idle", "done"}

\* C1: no result destination ever receives more than one Result, and a Submit
\* call that was rejected (pool not running, caller's ctx done, pool ctx done) has
\* received exactly one when it returns.
C1_AtMostOneResult ==
  \A c \in Calls : nres[c] <= 1 /\ (Rejected(c) => nres[c] = 1)

C1_Witness ==
  \E c, d \in Calls :
    /\ Rejected(c) /\ nres[c] = 1
    /\ Accepted(d) /\ nres[d] = 1
    /\ phase = "Stopped"

\* C2: once the pool is stopped and every goroutine has finished, each Submit
\* call that returned nil has had its Result delivered.
C2_AcceptedDelivered ==
  Quiescent => \A c \in Calls : Accepted(c) => nres[c] = 1

\* C3: after Stop has returned, no envelope is left in the queue without a
\* Result on its destination.
C3_QueueDrained ==
  phase = "Stopped" => \A k \in 1..Len(tasks.buf) : nres[tasks.buf[k]] = 1

\* C4: a Submit call that finds the pool not running returns ErrWorkerStopped at
\* once, with that error written once to its destination, and touches neither the
\* queue nor the metrics.
C4_NotRunningRejected ==
  [][\A c \in Calls :
       (subPc[c] = "idle" /\ subPc'[c] # "idle" /\ ~running) =>
          /\ subPc'[c] = "done"
          /\ subRet'[c] = "ErrWorkerStopped"
          /\ resVal'[c] = "ErrWorkerStopped"
          /\ nres'[c] = 1
          /\ UNCHANGED <<tasks, metricVars>>]_vars

C4_Witness ==
  \E c, d \in Calls :
    /\ d < c
    /\ phase = "Draining" /\ ~ctxDone
    /\ subPc[d] = "inc"
    /\ Rejected(c) /\ subRet[c] = "ErrWorkerStopped" /\ resVal[c] = "ErrWorkerStopped"
    /\ nres[c] = 1

\* C5: a Submit never puts an envelope in the queue once the pool has left
\* Running, and never dies of a run-time panic.
C5_NoLateEnqueueNoFault ==
  [][(Enqueues => running) /\ panicked' # "Submit"]_vars

\* C6: while the pool is running (Start has returned, Stop has not begun) the
\* active-worker gauge and the number of live worker loops are both within
\* [MinWorkers, MaxWorkers].
C6_WorkersInBounds ==
  (phase = "Running" /\ ~ctxDone /\ ~(ctl.op = "Start" /\ ctl.pc # "idle"))
     => InBounds(activeWorkers) /\ InBounds(LiveLoops)

\* C7: the life cycle only moves Created -> Running -> Draining -> Stopped; in
\* particular no Start succeeds on a pool that is not Created.
C7_LifeCycleOrder ==
  [][phase' # phase =>
       <<phase, phase'>> \in {<<"Created", "Running">>, <<"Running", "Draining">>,
                              <<"Draining", "Stopped">>}]_vars

\* C8: a Stop call on a pool an earlier Stop has stopped returns nil and changes
\* nothing: state flag, worker set, queue, metrics, results.
C8_SecondStopNoOp ==
  [][(ctl.pc = "idle" /\ ctl' # ctl /\ ctl'.op = "Stop" /\ phase = "Stopped") =>
       /\ ctl'.pc = "idle" /\ ctl'.ret = "nil"
       /\ panicked' = "none"
       /\ UNCHANGED <<metricVars, poolVars, callVars, phase>>]_vars

C8_Witness ==
  /\ ctl.op = "Stop" /\ ctl.pc = "idle" /\ ctl.ret = "nil" /\ ~ctl.swapped
  /\ phase = "Stopped"
  /\ Alive

\* C9: a Stop call that found the pool running is never cut short by a fault: it
\* goes on to return.
C9_StopReturns ==
  ~(ctl.op = "Stop" /\ ctl.pc # "idle" /\ panicked = "Stop")

\* C10: the step that ends Stop's wait adds the active-tasks gauge to the error
\* counter when it is the timeout, adds nothing when all loops have finished (wg
\* is 0), and either way leaves the pool not running with Stop going on to close
\* the channels.
C10_TimeoutCountsActive ==
  [][StopStep =>
       /\ waitEnd' \in {"timeout", "done"}
       /\ (waitEnd' = "timeout" => errorCount' = errorCount + activeTasks)
       /\ (waitEnd' = "done" => errorCount' = errorCount /\ wg = 0)
       /\ ~running'
       /\ ctl'.pc = "closeQuit"]_vars

C10_Witness ==
  /\ ctl.op = "Stop" /\ ctl.pc = "closeQuit"
  /\ waitEnd = "timeout"
  /\ activeTasks > 0
  /\ errorCount >= activeTasks

\* C11: when a worker loop takes the recovered panic of a task's function, the
\* task's destination receives its one and only Result, the error made from the
\* panic; the loop does not exit but is back at its select, ready for the next
\* envelope; the active-worker gauge, the wait group and the number of live loops
\* are unchanged, and nothing has died.
C11_FaultIsolated ==
  [][\A c \in Calls :
       (c \in wkExec /\ nres'[c] # nres[c] /\ resVal'[c] = "panicErr") =>
          /\ nres'[c] = 1
          /\ c \notin wkExec'
          /\ wkSelect' = wkSelect + 1
          /\ wkExiting' = wkExiting
          /\ LiveLoops' = LiveLoops
          /\ activeWorkers' = activeWorkers
          /\ wg' = wg
          /\ panicked' = "none"]_vars

\* The only loop of the pool took c's panic and is now executing d.
C11_Witness ==
  \E c, d \in Calls :
    /\ c # d
    /\ nres[c] = 1 /\ resVal[c] = "panicErr"
    /\ d \in wkExec
    /\ Goroutines = 1 /\ activeWorkers = 1
    /\ ops = 0 /\ phase = "Running"

\* C12: a Scale call made while the pool is not running returns the not-running
\* error at once, and a Scale call whose new count (gauge + delta) is outside
\* [MinWorkers, MaxWorkers] returns the range error at its check; either way no
\* loop is spawned, no exit signal is sent and no gauge or counter changes.
C12_RejectedScaleNoEffect ==
  [][/\ (ctl.pc = "idle" /\ ctl' # ctl /\ ctl'.op = "Scale" /\ ~running) =>
          /\ ctl' = Return("Scale", "ErrWorkerStopped")
          /\ UNCHANGED <<metricVars, poolVars, callVars, phase, panicked>>
     /\ (ctl.op = "Scale" /\ ctl.pc = "check" /\ ctl' # ctl
           /\ ~InBounds(activeWorkers + ctl.delta)) =>
          /\ ctl' = Return("Scale", "errRange")
          /\ UNCHANGED <<metricVars, poolVars, callVars, phase, panicked>>
     /\ (ctl'.op = "Scale" /\ ctl'.pc = "idle" /\ ctl' # ctl
           /\ ctl'.ret \in {"ErrWorkerStopped", "errRange"}) =>
          UNCHANGED <<metricVars, poolVars, callVars, phase, panicked>>]_vars

\* Scale(1) on a running pool that already has MaxWorkers loops was rejected.
C12_Witness ==
  /\ ctl = Return("Scale", "errRange")
  /\ phase = "Running" /\ running
  /\ activeWorkers = opts.MaxWorkers /\ LiveLoops = opts.MaxWorkers

\* C13: each iteration of a scale-down on a running pool either hands its exit
\* signal to a worker loop, and then exactly that one loop leaves and the call
\* goes on (returning nil after the last signal), or finds no loop to take it,
\* and then the call returns the scale error at once and no loop leaves; it
\* never does anything else.
C13_ScaleDownSignals ==
  [][(ctl.op = "Scale" /\ ctl.pc = "apply" /\ ctl.delta < 0 /\ running
        /\ <<ctl, panicked>>' # <<ctl, panicked>>) =>
       /\ panicked' = "none"
       /\ \/ /\ ctl' = Iterate
             /\ LiveLoops' = LiveLoops - 1
             /\ wkExiting' = wkExiting + 1
          \/ /\ ctl' = Return("Scale", "errScale")
             /\ UNCHANGED wkVars]_vars

\* C14: NewWorker returns a configuration error and no pool exactly when
\* MinWorkers <= 0 or MaxWorkers < MinWorkers or QueueSize <= 0; in every other
\* case it returns a pool that is in state Created.
C14_InvalidOptionsRejected ==
  created # "none" =>
    /\ created = "error" <=>
         (opts.MinWorkers <= 0 \/ opts.MaxWorkers < opts.MinWorkers
            \/ opts.QueueSize <= 0)
    /\ created = "pool" => (phase = "Created" /\ ~running)

\* C15: when the Start of a Created pool returns, it returns nil and the pool is
\* running, its queue is open with capacity QueueSize, the active-worker gauge
\* and the number of worker loops are both MinWorkers, and the autoscaler has
\* been started exactly if MaxWorkers > MinWorkers.
C15_StartBuildsPool ==
  [][(ctl.op = "Start" /\ ctl.pc = "spawn" /\ ctl'.pc = "idle" /\ ~ctxDone) =>
       /\ ctl'.ret = "nil"
       /\ running' /\ phase' = "Running"
       /\ tasks'.st = "open" /\ tasks'.cap = opts.QueueSize
       /\ activeWorkers' = opts.MinWorkers
       /\ LiveLoops' = opts.MinWorkers
       /\ autoScaler' = (opts.MaxWorkers > opts.MinWorkers)]_vars

C15_Witness ==
  /\ ctl = [Return("Start", "nil") EXCEPT !.swapped = TRUE]
  /\ ~ctxDone /\ ops = 0
  /\ running /\ tasks.st = "open" /\ tasks.cap = QueueSize
  /\ activeWorkers = MinWorkers /\ LiveLoops = MinWorkers
  /\ autoScaler

\* C16: on a running pool whose queue is full, a Submit call leaves its wait
\* only by its ctx becoming done: it returns the ctx's error, writes that same
\* error once to its destination, and neither the queue nor any metric changes.
C16_CancelWhileWaiting ==
  [][\A c \in Calls :
       (subPc[c] = "select" /\ subPc'[c] # "select" /\ running /\ ~ctxDone /\ Full)
         => /\ subPc'[c] = "done"
            /\ subRet'[c] = "ctxErr"
            /\ resVal'[c] = "ctxErr"
            /\ nres'[c] = nres[c] + 1
            /\ UNCHANGED <<tasks, metricVars>>]_vars

\* Call c gave up waiting while the queue was full of another call's envelope.
C16_Witness ==
  \E c, d \in Calls :
    /\ c # d
    /\ running /\ ~ctxDone /\ tasks.st = "open"
    /\ tasks.buf = <<d>> /\ Full
    /\ Rejected(c) /\ subRet[c] = "ctxErr" /\ resVal[c] = "ctxErr" /\ nres[c] = 1

\* C18: the queue never holds more envelopes than QueueSize, and a Submit call
\* that finds the queue full does not return success and does not lose its
\* envelope: it stays in its wait until the queue has room, or leaves it with an
\* error written to its destination because its ctx or the pool's ctx is done.
C18_QueueBounded ==
  /\ [](Len(tasks.buf) <= tasks.cap /\ tasks.cap \in {0, opts.QueueSize})
  /\ [][\A c \in Calls :
          (subPc[c] = "select" /\ subPc'[c] # "select" /\ Full) =>
             /\ subPc'[c] = "done"
             /\ \/ subRet'[c] = "ctxErr"
                \/ subRet'[c] = "ErrWorkerStopped" /\ ctxDone
             /\ resVal'[c] = subRet'[c]
             /\ nres'[c] = nres[c] + 1
             /\ UNCHANGED tasks]_vars

\* Call c waits on a full queue; call d, whose envelope fills it, has returned nil.
C18_Witness ==
  \E c, d \in Calls :
    /\ c # d
    /\ tasks.st = "open" /\ tasks.cap = QueueSize
    /\ tasks.buf = <<d>> /\ Full
    /\ Accepted(d)
    /\ subPc[c] = "select"
    /\ running /\ ~ctxDone

\* C17: the ctx of a Submit call becoming done after the call's envelope was
\* queued changes nothing in the pool: the envelope stays where it is, in the
\* queue or with the loop executing it; and the one Result such an envelope gets
\* is written by the loop that executes it and is the task's own outcome (its
\* value or its panic) or, when the pool ctx is done, the pool's cancellation;
\* never the error of the caller's ctx.
C17_LateCancelNoEffect ==
  [][\A c \in Calls :
       /\ (~cancelled[c] /\ cancelled'[c]) =>
            /\ UNCHANGED <<metricVars, poolVars, callVars, ctlVars, panicked>>
            /\ InPool(c)'
       /\ (cancelled[c] /\ nres'[c] # nres[c]) =>
            /\ c \in wkExec /\ c \notin wkExec'
            /\ nres'[c] = 1
            /\ resVal'[c] \in {"value", "panicErr", "cancelErr"}
            /\ resVal'[c] = "cancelErr" => ctxDone
            /\ subRet'[c] = subRet[c]]_vars

\* Submit returned nil for c, its ctx became done, and a loop is executing c on
\* the running pool.
C17_Witness ==
  \E c \in Calls :
    /\ Accepted(c) /\ cancelled[c]
    /\ c \in wkExec /\ nres[c] = 0
    /\ running /\ ~ctxDone

\* The envelope of call c is, or has been, in the queue; its place there (0: not
\* in the queue).
Admitted(c) == subPc[c] = "inc" \/ Accepted(c)
QueuePos(c) == CHOOSE k \in 0..Len(tasks.buf) :
                 IF \E j \in 1..Len(tasks.buf) : tasks.buf[j] = c
                   THEN k > 0 /\ tasks.buf[k] = c ELSE k = 0

\* C19: envelopes leave the queue in the order they were admitted, and the one
\* worker loop answers them in that order.  For calls c before d, both admitted:
\* while c is in the queue so is d, behind c; d is not executed while c is still
\* queued or executing; and d has no Result before c has one.
C19_FifoOrder ==
  \A c, d \in Calls :
    (c < d /\ Admitted(c) /\ Admitted(d)) =>
       /\ QueuePos(c) > 0 => QueuePos(d) > QueuePos(c)
       /\ d \in wkExec => (QueuePos(c) = 0 /\ c \notin wkExec /\ nres[c] = 1)
       /\ nres[d] = 1 => nres[c] = 1

\* The first admitted envelope has been executed and answered and the loop is
\* now executing the second.
C19_Witness ==
  \E c, d \in Calls :
    /\ c < d /\ Accepted(c) /\ Accepted(d)
    /\ queueLength = 1 /\ completedTasks + errorCount > 0
    /\ nres[c] = 1 /\ resVal[c] \in {"value", "panicErr"}
    /\ d \in wkExec

\* C20: what is read from the value a Metrics() call returned stays what the
\* counters and gauges were at the moment of the call, whatever the pool does
\* afterwards.
C20_SnapshotImmutable ==
  snap.taken => SnapshotRead = snap.atCall

\* C21: every Submit call that succeeds adds exactly 1 to the submitted counter
\* (TaskCount), so that the counter equals the number of accepted Submit calls;
\* a rejected Submit adds nothing.
C21_SubmittedCounted ==
  taskCount = Cardinality({c \in Calls : Accepted(c)})

\* C22: Reset() with nothing running concurrently, followed immediately by the
\* Get methods, returns zero for every counter and gauge: submitted,
\* queue-length, active-tasks, rejected, timed-out, completed, error-count,
\* active-workers and the averaged latency.
C22_ResetReadsZero ==
  regCall.last = "ResetGet" => \A f \in RegFields : regGot[f] = 0

\* A Reset that found a counter set, and the read right after it.
C22_Witness ==
  /\ regCall.last = "ResetGet"
  /\ regCall.dirty
  /\ regGot = RegZero

InHooks(h) == \E k \in 1..Len(lc.hooks) : lc.hooks[k] = h
Launched == lcPc.run \in {"wait", "close", "end"}

\* C23: every non-nil hook passed to Register is invoked exactly once, after
\* shutdown has begun: never twice, never before the manager left Running, and
\* never lost -- a hook whose Register call found shutdown begun was run at
\* once instead of being queued, and once runHooks has started the queued
\* hooks every registered hook has been invoked -- under every interleaving of
\* Register with the BeginShutdown calls.
C23_HookOnce ==
  \A h \in Hooks :
    /\ hook[h].n <= 1
    /\ hook[h].n = 1 => lc.state # "Running"
    /\ hook[h].pc = "returned" /\ ~InHooks(h) => hook[h].n = 1
    /\ hook[h].pc = "returned" /\ Launched => hook[h].n = 1

\* Two BeginShutdown calls were made; one hook was queued and started by
\* runHooks, another was registered after shutdown began and run at once.
C23_Witness ==
  /\ lcObs.calls = NumShut
  /\ Launched
  /\ \E g, h \in Hooks :
       /\ hook[g].pc = "returned" /\ InHooks(g) /\ hook[g].n = 1
       /\ hook[h].pc = "returned" /\ ~InHooks(h) /\ hook[h].n = 1

\* C24: Wait returns only when the shutdown flow is complete: at the moment it
\* returns the manager is not Running, and every hook passed to Register has
\* finished running or the shutdown timeout has expired.
C24_WaitMeansComplete ==
  [][(~lcObs.waited /\ lcObs'.waited) =>
       /\ lc.state # "Running"
       /\ \/ \A h \in Hooks : hook[h].pc = "returned" => hook[h].st = "finished"
          \/ lc.expired]_vars

\* C25: ShutdownContext never returns a nil context, and no hook is handed
\* one: the context is the background context before shutdown begins and the
\* shutdown-phase context in every state during or after BeginShutdown.
C25_ShutdownCtxNotNil ==
  /\ lcObs.got \in {"none", "background", "sd"}
  /\ \A h \in Hooks : hook[h].ctx \in {"none", "sd"}

Flipped(b, n) == IF n % 2 = 0 THEN b ELSE ~b

\* C26: Toggle flips the value atomically and returns the new value: with
\* NumTogglers concurrent calls and no other writer, the value after k flips is
\* the initial value flipped k times (after all calls: NumTogglers times), each
\* finished call made exactly one flip and returned the value that flip
\* installed, and the values installed alternate along the order of the flips.
C26_ToggleAtomic ==
  LET log == toggled.log
      done == {p \in Togglers : toggler[p].pc = "done"}
  IN /\ (bvalue # 0) = Flipped(toggled.initial, Len(log))
     /\ Len(log) = Cardinality(done)
     /\ \A p \in done :
          \E k \in 1..Len(log) :
            /\ log[k].by = p
            /\ toggler[p].ret = (log[k].value # 0)
            /\ \A j \in 1..Len(log) : log[j].by = p => j = k
     /\ \A k \in 1..Len(log) : (log[k].value # 0) = Flipped(toggled.initial, k)

\* All calls have returned, and one of them lost a CompareAndSwap to another
\* call and went through its loop again.
C26_Witness ==
  /\ \A p \in Togglers : toggler[p].pc = "done"
  /\ Len(toggled.log) = NumTogglers
  /\ \E p \in Togglers : toggler[p].loads > 1

\* C27: for every envelope a worker loop has dequeued and executed, exactly one
\* of the completed counter and the error counter goes up, by exactly 1, and
\* the active-task and queue-length gauges each go down by exactly 1.
C27_OneCountPerEnvelope ==
  [][\A c \in Calls :
       (c \in wkExec /\ c \notin wkExec') =>
         /\ \/ completedTasks' = completedTasks + 1 /\ errorCount' = errorCount
            \/ completedTasks' = completedTasks /\ errorCount' = errorCount + 1
         /\ activeTasks' = activeTasks - 1
         /\ queueLength' = queueLength - 1]_vars

\* The step of a loop in executeTask that takes the case of the pool ctx: one
\* cancellation Result goes to the envelope's destination and the loop is back
\* at the select of runWorker.
CancelDelivered(c) ==
  /\ WorkerExec(c)
  /\ resVal'[c] = "cancelErr"
  /\ nres'[c] = nres[c] + 1
  /\ c \notin wkExec'
  /\ wkSelect' = wkSelect + 1
\* The step of a loop at the select of runWorker that returns.
LoopReturns == WorkerSelect /\ wkExiting' = wkExiting + 1

C29_IdleExitFrame ==
  [][/\ (wkExiting' = wkExiting + 1 /\ wkExec' = wkExec) =>
          /\ wkSelect' = wkSelect - 1
          /\ activeWorkers' = activeWorkers
          /\ UNCHANGED <<queueLength, activeTasks, completedTasks, errorCount, tasks>>
     /\ wkExiting' = wkExiting - 1 =>
          /\ activeWorkers' = activeWorkers - 1
          /\ UNCHANGED <<wkSelect, wkExec>>
          /\ UNCHANGED <<queueLength, activeTasks, completedTasks, errorCount, tasks>>
    ]_vars

\* After Stop's signal the loops of the pool, which never held an envelope,
\* have all left and run their deferred calls: the gauge is back at 0 and the
\* task-level metrics are as NewWorker left them.
C29_Witness ==
  /\ ctxDone
  /\ Goroutines = 0
  /\ activeWorkers = 0
  /\ queueLength = 0 /\ activeTasks = 0 /\ completedTasks = 0 /\ errorCount = 0
  /\ \A c \in Calls : nres[c] = 0 /\ subPc[c] = "idle"

\* The rule of the autoscaler as the specification states it, for workers > 0:
\* the rate completed / workers compared as a rational number.
ReferenceRule(queueLen, workers, completed, o) ==
  IF queueLen > 2 * workers /\ 10 * completed >= 8 * workers /\ workers < o.MaxWorkers
    THEN (IF o.MaxWorkers - workers <= 2 THEN o.MaxWorkers - workers ELSE 2)
  ELSE IF queueLen = 0 /\ 10 * completed < 2 * workers /\ workers > o.MinWorkers
    THEN -1
  ELSE 0

\* C30: for every Autoscaler tick with activeWorkers > 0 and every combination
\* of queueLength, activeWorkers, completed, MinWorkers and MaxWorkers within
\* the bounds, the action taken equals the reference rule: Scale(min(MaxWorkers
\* - activeWorkers, 2)) if queueLength > 2 x activeWorkers and completed /
\* activeWorkers >= 0.8 and activeWorkers < MaxWorkers; otherwise Scale(-1) if
\* queueLength = 0 and completed / activeWorkers < 0.2 and activeWorkers >
\* MinWorkers; otherwise no action.
C30_TickFollowsRule ==
  tick.done /\ tick.activeWorkers > 0 =>
    tick.arg = ReferenceRule(tick.queueLen, tick.activeWorkers, tick.completedTasks,
                             opts)

\* A tick that scaled up by 1, not 2, because activeWorkers was one below
\* MaxWorkers.
C30_Witness ==
  /\ tick.done
  /\ tick.activeWorkers > 0
  /\ tick.arg = 1
  /\ opts.MaxWorkers - tick.activeWorkers = 1

\* C31: a tick of the autoscaler that reads activeWorkers = 0 is skipped
\* entirely: it issues no Scale call, whatever queueLength and completed are.
C31_ZeroWorkersSkipped ==
  tick.done /\ tick.activeWorkers = 0 => tick.arg = 0

\* What IsRunning, IsShuttingDown and IsStopped (lines 39-41) return.
IsRunning == lc.state = "Running"
IsShuttingDown == lc.state = "Shutting"
IsStopped == lc.state = "Stopped"
StateRank(s) == CASE s = "Running" -> 1 [] s = "Shutting" -> 2 [] s = "Stopped" -> 3

\* C38: the manager's state only moves Running -> Shutting -> Stopped, one
\* step at a time and never backwards; in every state exactly one of
\* IsRunning, IsShuttingDown, IsStopped is true; and m.done is closed at most
\* once -- exactly once when the state is Stopped and complete has run --
\* although both the hooks-finished path and the timeout path call complete,
\* for any number of BeginShutdown calls.
C38_StateOrderDoneOnce ==
  /\ [](/\ Cardinality({b \in {<<1, IsRunning>>, <<2, IsShuttingDown>>,
                               <<3, IsStopped>>} : b[2]}) = 1
        /\ lc.done <= 1
        /\ lc.done = 1 => IsStopped
        /\ (lcPc.run = "end" /\ lcPc.timer = "end") => lc.done = 1)
  /\ [][StateRank(lc'.state) \in {StateRank(lc.state), StateRank(lc.state) + 1}]_vars

\* Both paths have called complete after two BeginShutdown calls: the timeout
\* expired and the hooks finished, and done was closed once.
C38_Witness ==
  /\ lcObs.calls = NumShut
  /\ lcPc.run = "end" /\ lcPc.timer = "end"
  /\ lc.expired
  /\ lc.done = 1
  /\ \E h \in Hooks : hook[h].st = "finished" /\ hook[h].inWg

\* C35: the queue-length gauge and the active-tasks gauge are never negative,
\* however the increments of a Submit (after its send) interleave with the
\* decrements of the loop that completes the same envelope.
C35_GaugesNotNegative ==
  queueLength >= 0 /\ activeTasks >= 0

\* C34: Start allocates the queue before the pool is Running: a Submit that has
\* seen the pool Running (it passed the check of line 46 and is at its select)
\* has an allocated queue to send to, never the queue that does not exist yet.
C34_QueueBeforeRunning ==
  \A c \in Calls : subPc[c] = "select" => tasks.st # "nil"

\* C36: once the pool-wide stop signal has fired (w.ctx is done), no worker loop
\* takes a further envelope from the queue to launch its function: a loop at
\* its select with the signal and a non-empty queue both ready exits.
C36_NoDequeueAfterStopSignal ==
  [][ctxDone => wkExec' \subseteq wkExec]_vars

\* C33: the active-worker gauge is never negative, and in every state where no
\* Start, no Scale and no loop exit is in the middle of its steps it equals the
\* number of worker loops that were spawned and have not exited.
C33_GaugeIsMembership ==
  /\ activeWorkers >= 0
  /\ (~(ctl.op \in {"Start", "Scale"} /\ ctl.pc # "idle") /\ wkExiting = 0)
       => activeWorkers = LiveLoops

\* Scale(1) and then Scale(-1) have returned nil and the loop that took the exit
\* signal has run its deferred calls: one loop is left and the gauge reads 1.
C33_Witness ==
  /\ ~ctxDone
  /\ ctl.pc = "idle" /\ ctl.op = "Scale" /\ ctl.ret = "nil"
  /\ ops >= 2
  /\ wkExiting = 0
  /\ LiveLoops = 1
  /\ activeWorkers = 1

StopPastWait ==
  \/ ctl.op = "Stop" /\ ctl.pc \in {"closeQuit", "closeTasks"}
  \/ phase = "Stopped"
ScalerSpawns == scaler' # scaler /\ wg' = wg + 1
ScalerSignals == scaler' # scaler /\ wkExiting' = wkExiting + 1

\* C32: however a Scale call of the autoscaler or of a caller interleaves with
\* Stop, once Stop has finished waiting for the loops the call spawns no worker
\* loop and sends no exit signal, and it never sends on the exit-signal channel
\* that Stop has closed (a send that panics).
C32_NoScaleAfterStopWait ==
  [][/\ StopPastWait => ~ScalerSpawns /\ ~ScalerSignals
     /\ panicked' # "Scale"]_vars

\* C40: whenever the channel returned by Done() is closed, Err() returns an
\* error that is not nil; and while the parent has not been cancelled Done()
\* is open and Err() returns nil.
C40_DoneImpliesErr ==
  /\ waiter.done => waiter.err # "nil"
  /\ waiter.parent = "live" => ~waiter.done /\ waiter.err = "nil"

\* C39: a transition requested with TransitionTo takes effect (the current
\* state changes) only when no task of the current state is left unfinished,
\* and a task added by a state's Enter is run while that state is the current
\* one, two TransitionTo calls issued back to back included.
C39_TransitionAfterTasks ==
  [][/\ machine'.currentState # machine.currentState =>
          /\ machine.worker.pc # "task"
          /\ \A t \in machine.senders : t[1] # machine.currentState
     /\ \A t \in machine.senders \ machine'.senders : t[1] = machine.currentState
    ]_vars

====
